---- MODULE Spec2Model ----
(***************************************************************************)
(* Model of the lending domain of src/src/biblioteca.py: Publicacion       *)
(* (Libro, Revista, DVD), Usuario, Prestamo and the coordinating           *)
(* Biblioteca.                                                             *)
(*                                                                         *)
(* Objects are identified by their position in the Biblioteca's lists.     *)
(* Timestamps are integers counted in clock units, UnidadesPorDia units to *)
(* a day, so that timedelta.days (a floor) is visible.  Monetary amounts   *)
(* are integers counted in hundredths (1.00 = 100); every amount the code  *)
(* computes is a multiple of 0.50 and exact in binary floating point.      *)
(*                                                                         *)
(* Beside it, the InventarioService of src/src/inventario.py with its      *)
(* BaseDatos and ValidadorProducto, and the GestorTareas of                *)
(* src/src/api_tareas.py.  The three do not share state; each              *)
(* specification exercises one of them and leaves the others as            *)
(* constructed.                                                            *)
(***************************************************************************)
EXTENDS Integers, Sequences, FiniteSets, TLC

(* ------------------------------ bounds -------------------------------- *)

\* Usuarios registered in the catalog of Spec
NumUsuarios == 2

\* Spec explores crear_prestamo until this many Prestamos exist
MaxPrestamos == 2

\* clock units in one day
UnidadesPorDia == 2

\* Usuarios registered in the catalog of SpecLimite, and by SpecCatalogo
NumUsuariosLimite == 1

\* SpecLimite explores agregar_penalizacion up to this balance
MaxPenalizacion == 100

\* SpecCatalogo registers this many Publicaciones
NumPublicacionesCatalogo == 2

\* SpecCatalogo explores crear_prestamo until this many Prestamos exist
MaxPrestamosCatalogo == 1

\* threads that call crear_prestamo concurrently in SpecConcurrente
NumHilos == 2

\* SpecInventario explores agregar_producto until this many Productos are stored
MaxProductos == 2

\* largest stock a Producto is added with in SpecInventario
MaxStock == 2

\* SpecInventario explores the calls that write to the log until it holds
\* this many entries
MaxLog == 4

\* SpecTareas explores crear_tarea until this many Tareas were created
MaxTareas == 2

(* ---------------------------- constants ------------------------------- *)

\* Prestamo.__init__: dias_prestamo default
DIAS_PRESTAMO == 7

\* Usuario.puede_pedir_prestamo: maximum simultaneous loans
MAX_PRESTAMOS_ACTIVOS == 3

\* Optional[datetime] = None
None == -1

\* buscar_* returning None
NoEncontrado == 0

Tipos == {"Libro", "Revista", "DVD"}

\* the catalog of Spec holds one Publicacion of each subclass
NumPublicaciones == Cardinality(Tipos)

\* the catalog of SpecLimite holds one Publicacion more than a Usuario may
\* borrow at once, and SpecLimite explores crear_prestamo until as many
\* Prestamos exist
NumPublicacionesLimite == MAX_PRESTAMOS_ACTIVOS + 1
MaxPrestamosLimite == MAX_PRESTAMOS_ACTIVOS + 1

OK == "ok"
ErrUsuarioNoEncontrado == "Usuario no encontrado"
ErrPublicacionNoEncontrada == "Publicacion no encontrada"
ErrNoPuedePedir == "El usuario no puede pedir prestamos en este momento"
ErrNoDisponible == "La publicacion no esta disponible"
ErrYaDevuelto == "El prestamo ya fue devuelto"
ErrYaPrestada == "La publicacion ya esta prestada"
ErrNoPrestada == "La publicacion no esta prestada"
ErrMontoExcede == "El monto excede la penalizacion acumulada"

\* ValidadorProducto.validar, InventarioService.agregar_producto and
\* vender_producto: the messages returned
ErrNombreVacio == "El nombre no puede estar vacio"
ErrPrecio == "El precio debe ser mayor a cero"
ErrStockNegativo == "El stock no puede ser negativo"
ProductoAgregado == "Producto agregado exitosamente"
ErrProductoNoEncontrado == "Producto no encontrado"
ErrCantidad == "La cantidad debe ser mayor a cero"
ErrStockInsuficiente == "Stock insuficiente"
VentaRegistrada == "Venta registrada exitosamente"

\* GestorTareas.crear_tarea: the longest titulo accepted
LIMITE_TITULO == 100

\* GestorTareas.crear_tarea and actualizar_tarea: the ValueErrors raised, and
\* the None and the False returned for an id that is not stored
ErrTituloVacio == "El titulo no puede estar vacio"
ErrTituloLargo == "El titulo no puede tener mas de 100 caracteres"
TareaNoEncontrada == "None"

\* raised by Python for a method the object does not have
AttributeError == "AttributeError"

\* raised by Python for a call with more arguments than the method takes
TypeError == "TypeError"

(* ------------------------------ state --------------------------------- *)

VARIABLES
    publicaciones,      \* Biblioteca._publicaciones: [id, tipo, disponible]
    usuarios,           \* Biblioteca._usuarios: [id, prestamos_activos, penalizacion_acumulada]
    prestamos,          \* Biblioteca._prestamos: Prestamo records
    next_prestamo_id,   \* Biblioteca._next_prestamo_id
    ahora,              \* the value datetime.now() returns
    pagado,             \* per Usuario, the sum of the amounts pagar_penalizacion accepted
    llamada,            \* the operation called last
    resultado,          \* its outcome: OK or the ValueError raised
    hilos,              \* per thread, the call of crear_prestamo it is executing
    productos,          \* BaseDatos._productos: id -> [nombre, precio, stock]
    bd_next_id,         \* BaseDatos._next_id
    log,                \* InventarioService._log
    ventas,             \* per Producto, the stock it was added with and the units sold
    tareas,             \* GestorTareas.tareas: id -> [titulo, completada]
    next_id             \* GestorTareas.next_id

vars == <<publicaciones, usuarios, prestamos, next_prestamo_id, ahora, pagado,
          llamada, resultado, hilos, productos, bd_next_id, log, ventas,
          tareas, next_id>>

\* the threads of a concurrent host
concurrente == <<hilos>>

\* src/src/inventario.py
inventario == <<productos, bd_next_id, log, ventas>>

\* src/src/api_tareas.py
gestor == <<tareas, next_id>>

\* the Biblioteca, its clock and the payments made to it
biblioteca == <<publicaciones, usuarios, prestamos, next_prestamo_id, ahora, pagado>>

\* what a call made on the Biblioteca by a single caller leaves alone
ajenos == <<concurrente, inventario, gestor>>

estado == <<publicaciones, usuarios, prestamos, next_prestamo_id>>

(* ----------------------------- helpers -------------------------------- *)

\* the three subclasses are registered in turn
TipoDe(i) ==
    CASE i % 3 = 1 -> "Libro"
      [] i % 3 = 2 -> "Revista"
      [] OTHER     -> "DVD"

\* Libro / Revista / DVD .calcular_penalizacion_retraso
calcular_penalizacion_retraso(tipo, dias_retraso) ==
    CASE tipo = "Libro"   -> dias_retraso * 100
      [] tipo = "Revista" -> dias_retraso * 50
      [] tipo = "DVD"     -> dias_retraso * 200

\* timedelta(days=n) in clock units
timedelta_days(n) == n * UnidadesPorDia

\* days rounding a started day up
days_redondeo_arriba(delta) == (delta + UnidadesPorDia - 1) \div UnidadesPorDia

\* timedelta.days of a difference of two timestamps (floor)
days(delta) == delta \div UnidadesPorDia

\* first position of a list whose element has the id, NoEncontrado if none
RECURSIVE PrimerIndice(_, _, _)
PrimerIndice(s, id, i) ==
    IF i > Len(s) THEN NoEncontrado
    ELSE IF s[i].id = id THEN i
    ELSE PrimerIndice(s, id, i + 1)

\* Biblioteca.buscar_usuario
buscar_usuario(id) == PrimerIndice(usuarios, id, 1)

\* Biblioteca.buscar_publicacion
buscar_publicacion(id) == PrimerIndice(publicaciones, id, 1)

\* puede_pedir_prestamo comparing with > where the code compares with >=
puede_pedir_prestamo_limite_laxo(u) ==
    IF Len(usuarios[u].prestamos_activos) > MAX_PRESTAMOS_ACTIVOS THEN FALSE
    ELSE IF usuarios[u].penalizacion_acumulada > 0 THEN FALSE
    ELSE TRUE

\* puede_pedir_prestamo without the check of pending penalties
puede_pedir_prestamo_sin_penalizacion(u) ==
    IF Len(usuarios[u].prestamos_activos) >= MAX_PRESTAMOS_ACTIVOS THEN FALSE
    ELSE TRUE

\* Usuario.puede_pedir_prestamo
puede_pedir_prestamo(u) ==
    IF Len(usuarios[u].prestamos_activos) >= MAX_PRESTAMOS_ACTIVOS THEN FALSE
    ELSE IF usuarios[u].penalizacion_acumulada > 0 THEN FALSE
    ELSE TRUE

\* remover_prestamo emptying the list of active loans
remover_prestamo_todos(activos, l) == <<>>

\* remover_prestamo dropping the last active loan, whichever is returned
remover_prestamo_ultimo(activos, l) ==
    IF activos = <<>> THEN <<>> ELSE SubSeq(activos, 1, Len(activos) - 1)

\* list.remove guarded by "in": drops the first occurrence, if any
RECURSIVE remover_prestamo(_, _)
remover_prestamo(activos, l) ==
    IF activos = <<>> THEN <<>>
    ELSE IF Head(activos) = l THEN Tail(activos)
    ELSE <<Head(activos)>> \o remover_prestamo(Tail(activos), l)

\* Prestamo.__init__ leaving the loan period out of the due date
NuevoPrestamo_sin_plazo(id, u, p) ==
    [id |-> id, usuario |-> u, publicacion |-> p,
     fecha_prestamo |-> ahora,
     fecha_devolucion_esperada |-> ahora,
     fecha_devolucion_real |-> None,
     penalizacion |-> 0]

\* Prestamo.__init__
NuevoPrestamo(id, u, p) ==
    [id |-> id, usuario |-> u, publicacion |-> p,
     fecha_prestamo |-> ahora,
     fecha_devolucion_esperada |-> ahora + timedelta_days(DIAS_PRESTAMO),
     fecha_devolucion_real |-> None,
     penalizacion |-> 0]

(* ------------------------------- Init --------------------------------- *)

\* the threads that may call crear_prestamo at the same time
Hilos == 1..NumHilos

\* a thread that has not called crear_prestamo
EnReposo ==
    [pc |-> "reposo", usuario_id |-> 0, publicacion_id |-> 0,
     usuario |-> NoEncontrado, publicacion |-> NoEncontrado,
     prestamo_id |-> 0, leido |-> 0, resultado |-> OK]

\* the catalog after agregar_usuario(Usuario(i, ...)) for i = 1..nu and
\* agregar_publicacion of np publications, no loan made yet and no call in
\* progress; beside it a BaseDatos with its InventarioService and a
\* GestorTareas, just constructed
Catalogo(nu, np) ==
    /\ publicaciones = [i \in 1..np |->
                          [id |-> i, tipo |-> TipoDe(i), disponible |-> TRUE]]
    /\ usuarios = [i \in 1..nu |->
                     [id |-> i, prestamos_activos |-> <<>>,
                      penalizacion_acumulada |-> 0]]
    /\ prestamos = <<>>
    /\ next_prestamo_id = 1
    /\ ahora = 0
    /\ pagado = [i \in 1..nu |-> 0]
    /\ llamada = "Biblioteca"
    /\ resultado = OK
    /\ hilos = [h \in Hilos |-> EnReposo]
    /\ productos = <<>>
    /\ bd_next_id = 1
    /\ log = <<>>
    /\ ventas = <<>>
    /\ tareas = <<>>
    /\ next_id = 1

Init == Catalogo(NumUsuarios, NumPublicaciones)

InitLimite == Catalogo(NumUsuariosLimite, NumPublicacionesLimite)

InitContrato == Catalogo(NumUsuarios, NumPublicacionesLimite)

\* Biblioteca.__init__: nothing registered yet
InitCatalogo == Catalogo(0, 0)

(* ------------------------------ actions ------------------------------- *)

\* crear_prestamo without the check of publicacion.disponible
crear_prestamo_sin_disponibilidad(usuario_id, publicacion_id) ==
    /\ llamada' = "crear_prestamo"
    /\ UNCHANGED <<ahora, pagado>>
    /\ LET u == buscar_usuario(usuario_id)
           p == buscar_publicacion(publicacion_id)
       IN  IF u = NoEncontrado THEN
               /\ resultado' = ErrUsuarioNoEncontrado
               /\ UNCHANGED estado
           ELSE IF p = NoEncontrado THEN
               /\ resultado' = ErrPublicacionNoEncontrada
               /\ UNCHANGED estado
           ELSE IF ~puede_pedir_prestamo(u) THEN
               /\ resultado' = ErrNoPuedePedir
               /\ UNCHANGED estado
           ELSE
               /\ prestamos' = Append(prestamos, NuevoPrestamo(next_prestamo_id, u, p))
               /\ next_prestamo_id' = next_prestamo_id + 1
               /\ publicaciones' = [publicaciones EXCEPT ![p].disponible = FALSE]
               /\ usuarios' = [usuarios EXCEPT ![u].prestamos_activos =
                                   Append(@, Len(prestamos) + 1)]
               /\ resultado' = OK

\* crear_prestamo without the call of usuario.agregar_prestamo
crear_prestamo_sin_agregar(usuario_id, publicacion_id) ==
    /\ llamada' = "crear_prestamo"
    /\ UNCHANGED <<ahora, pagado>>
    /\ LET u == buscar_usuario(usuario_id)
           p == buscar_publicacion(publicacion_id)
       IN  IF u = NoEncontrado THEN
               /\ resultado' = ErrUsuarioNoEncontrado
               /\ UNCHANGED estado
           ELSE IF p = NoEncontrado THEN
               /\ resultado' = ErrPublicacionNoEncontrada
               /\ UNCHANGED estado
           ELSE IF ~puede_pedir_prestamo(u) THEN
               /\ resultado' = ErrNoPuedePedir
               /\ UNCHANGED estado
           ELSE IF ~publicaciones[p].disponible THEN
               /\ resultado' = ErrNoDisponible
               /\ UNCHANGED estado
           ELSE
               /\ prestamos' = Append(prestamos, NuevoPrestamo(next_prestamo_id, u, p))
               /\ next_prestamo_id' = next_prestamo_id + 1
               /\ publicaciones' = [publicaciones EXCEPT ![p].disponible = FALSE]
               /\ UNCHANGED usuarios
               /\ resultado' = OK

\* crear_prestamo taking the next id before it validates its arguments
crear_prestamo_id_anticipado(usuario_id, publicacion_id) ==
    /\ llamada' = "crear_prestamo"
    /\ UNCHANGED <<ahora, pagado>>
    /\ next_prestamo_id' = next_prestamo_id + 1
    /\ LET u == buscar_usuario(usuario_id)
           p == buscar_publicacion(publicacion_id)
       IN  IF u = NoEncontrado THEN
               /\ resultado' = ErrUsuarioNoEncontrado
               /\ UNCHANGED <<publicaciones, usuarios, prestamos>>
           ELSE IF p = NoEncontrado THEN
               /\ resultado' = ErrPublicacionNoEncontrada
               /\ UNCHANGED <<publicaciones, usuarios, prestamos>>
           ELSE IF ~puede_pedir_prestamo(u) THEN
               /\ resultado' = ErrNoPuedePedir
               /\ UNCHANGED <<publicaciones, usuarios, prestamos>>
           ELSE IF ~publicaciones[p].disponible THEN
               /\ resultado' = ErrNoDisponible
               /\ UNCHANGED <<publicaciones, usuarios, prestamos>>
           ELSE
               /\ prestamos' = Append(prestamos, NuevoPrestamo(next_prestamo_id, u, p))
               /\ publicaciones' = [publicaciones EXCEPT ![p].disponible = FALSE]
               /\ usuarios' = [usuarios EXCEPT ![u].prestamos_activos =
                                   Append(@, Len(prestamos) + 1)]
               /\ resultado' = OK

\* crear_prestamo lending to a Usuario it did not find in the catalog
crear_prestamo_sin_usuario_registrado(usuario_id, publicacion_id) ==
    /\ llamada' = "crear_prestamo"
    /\ UNCHANGED <<ahora, pagado>>
    /\ LET u == buscar_usuario(usuario_id)
           p == buscar_publicacion(publicacion_id)
       IN  IF u = NoEncontrado THEN
               /\ prestamos' = Append(prestamos,
                                      NuevoPrestamo(next_prestamo_id, usuario_id,
                                                    publicacion_id))
               /\ next_prestamo_id' = next_prestamo_id + 1
               /\ UNCHANGED <<publicaciones, usuarios>>
               /\ resultado' = OK
           ELSE IF p = NoEncontrado THEN
               /\ resultado' = ErrPublicacionNoEncontrada
               /\ UNCHANGED estado
           ELSE IF ~puede_pedir_prestamo(u) THEN
               /\ resultado' = ErrNoPuedePedir
               /\ UNCHANGED estado
           ELSE IF ~publicaciones[p].disponible THEN
               /\ resultado' = ErrNoDisponible
               /\ UNCHANGED estado
           ELSE
               /\ prestamos' = Append(prestamos, NuevoPrestamo(next_prestamo_id, u, p))
               /\ next_prestamo_id' = next_prestamo_id + 1
               /\ publicaciones' = [publicaciones EXCEPT ![p].disponible = FALSE]
               /\ usuarios' = [usuarios EXCEPT ![u].prestamos_activos =
                                   Append(@, Len(prestamos) + 1)]
               /\ resultado' = OK

\* crear_prestamo checking the Publicacion before the Usuario
crear_prestamo_disponibilidad_primero(usuario_id, publicacion_id) ==
    /\ llamada' = "crear_prestamo"
    /\ UNCHANGED <<ahora, pagado>>
    /\ LET u == buscar_usuario(usuario_id)
           p == buscar_publicacion(publicacion_id)
       IN  IF u = NoEncontrado THEN
               /\ resultado' = ErrUsuarioNoEncontrado
               /\ UNCHANGED estado
           ELSE IF p = NoEncontrado THEN
               /\ resultado' = ErrPublicacionNoEncontrada
               /\ UNCHANGED estado
           ELSE IF ~publicaciones[p].disponible THEN
               /\ resultado' = ErrNoDisponible
               /\ UNCHANGED estado
           ELSE IF ~puede_pedir_prestamo(u) THEN
               /\ resultado' = ErrNoPuedePedir
               /\ UNCHANGED estado
           ELSE
               /\ prestamos' = Append(prestamos, NuevoPrestamo(next_prestamo_id, u, p))
               /\ next_prestamo_id' = next_prestamo_id + 1
               /\ publicaciones' = [publicaciones EXCEPT ![p].disponible = FALSE]
               /\ usuarios' = [usuarios EXCEPT ![u].prestamos_activos =
                                   Append(@, Len(prestamos) + 1)]
               /\ resultado' = OK

\* crear_prestamo leaving _next_prestamo_id as it found it
crear_prestamo_sin_incremento(usuario_id, publicacion_id) ==
    /\ llamada' = "crear_prestamo"
    /\ UNCHANGED <<ahora, pagado>>
    /\ LET u == buscar_usuario(usuario_id)
           p == buscar_publicacion(publicacion_id)
       IN  IF u = NoEncontrado THEN
               /\ resultado' = ErrUsuarioNoEncontrado
               /\ UNCHANGED estado
           ELSE IF p = NoEncontrado THEN
               /\ resultado' = ErrPublicacionNoEncontrada
               /\ UNCHANGED estado
           ELSE IF ~puede_pedir_prestamo(u) THEN
               /\ resultado' = ErrNoPuedePedir
               /\ UNCHANGED estado
           ELSE IF ~publicaciones[p].disponible THEN
               /\ resultado' = ErrNoDisponible
               /\ UNCHANGED estado
           ELSE
               /\ prestamos' = Append(prestamos, NuevoPrestamo(next_prestamo_id, u, p))
               /\ UNCHANGED next_prestamo_id
               /\ publicaciones' = [publicaciones EXCEPT ![p].disponible = FALSE]
               /\ usuarios' = [usuarios EXCEPT ![u].prestamos_activos =
                                   Append(@, Len(prestamos) + 1)]
               /\ resultado' = OK

\* Biblioteca.crear_prestamo(usuario_id, publicacion_id)
crear_prestamo(usuario_id, publicacion_id) ==
    /\ llamada' = "crear_prestamo"
    /\ UNCHANGED <<ahora, pagado>>
    /\ LET u == buscar_usuario(usuario_id)
           p == buscar_publicacion(publicacion_id)
       IN  IF u = NoEncontrado THEN
               /\ resultado' = ErrUsuarioNoEncontrado
               /\ UNCHANGED estado
           ELSE IF p = NoEncontrado THEN
               /\ resultado' = ErrPublicacionNoEncontrada
               /\ UNCHANGED estado
           ELSE IF ~puede_pedir_prestamo(u) THEN
               /\ resultado' = ErrNoPuedePedir
               /\ UNCHANGED estado
           ELSE IF ~publicaciones[p].disponible THEN
               /\ resultado' = ErrNoDisponible
               /\ UNCHANGED estado
           ELSE
               /\ prestamos' = Append(prestamos, NuevoPrestamo(next_prestamo_id, u, p))
               /\ next_prestamo_id' = next_prestamo_id + 1
               /\ publicaciones' = [publicaciones EXCEPT ![p].disponible = FALSE]
               /\ usuarios' = [usuarios EXCEPT ![u].prestamos_activos =
                                   Append(@, Len(prestamos) + 1)]
               /\ resultado' = OK

\* devolver without its guard against a second return
ya_devuelto_sin_control(pr) == FALSE

\* devolver taking a recorded penalty for the sign of a return
ya_devuelto_por_penalizacion(pr) == pr.penalizacion > 0

\* esta_vencido without its check of the return
esta_vencido_sin_devolucion(pr) == ahora > pr.fecha_devolucion_esperada

\* esta_vencido counting the due instant itself as overdue
esta_vencido_en_el_vencimiento(pr) ==
    IF pr.fecha_devolucion_real # None THEN FALSE
    ELSE ahora >= pr.fecha_devolucion_esperada

\* Prestamo.esta_vencido()
esta_vencido(pr) ==
    IF pr.fecha_devolucion_real # None THEN FALSE
    ELSE ahora > pr.fecha_devolucion_esperada

\* max(0, dias)
max0(dias) == IF dias > 0 THEN dias ELSE 0

\* calcular_dias_retraso without its check of esta_vencido
calcular_dias_retraso_sin_vencimiento(pr) ==
    max0(days(ahora - pr.fecha_devolucion_esperada))

\* Prestamo.calcular_dias_retraso()
calcular_dias_retraso(pr) ==
    IF ~esta_vencido(pr) THEN 0
    ELSE max0(days(ahora - pr.fecha_devolucion_esperada))

\* Biblioteca.obtener_prestamos_vencidos()
obtener_prestamos_vencidos == SelectSeq(prestamos, esta_vencido)

\* Prestamo.devolver: "if self._fecha_devolucion_real"
ya_devuelto(pr) == pr.fecha_devolucion_real # None

\* Prestamo.devolver: fecha_devolucion_real > fecha_devolucion_esperada
vencida(pr, real) == real > pr.fecha_devolucion_esperada

\* Prestamo.devolver: fecha_devolucion_real - fecha_devolucion_esperada
retraso(pr, real) == real - pr.fecha_devolucion_esperada

\* agregar_penalizacion assigning the amount instead of adding it
con_penalizacion_sobrescrita(us, u, monto) ==
    [us EXCEPT ![u].penalizacion_acumulada = monto]

\* Usuario.agregar_penalizacion applied to the Usuario at position u of us
con_penalizacion(us, u, monto) ==
    [us EXCEPT ![u].penalizacion_acumulada = @ + monto]

\* Usuario.remover_prestamo applied to the Usuario at position u of us
sin_prestamo(us, u, l) ==
    [us EXCEPT ![u].prestamos_activos = remover_prestamo(@, l)]

\* devolver leaving the Publicacion marked as on loan
devolver_sin_liberar(l) ==
    /\ llamada' = "devolver"
    /\ UNCHANGED <<next_prestamo_id, ahora, pagado>>
    /\ LET pr == prestamos[l]
           u == pr.usuario
           p == pr.publicacion
           real == ahora
           tarde == vencida(pr, real)
           dias_retraso == days(retraso(pr, real))
           penalizacion == IF tarde
                           THEN calcular_penalizacion_retraso(publicaciones[p].tipo,
                                                              dias_retraso)
                           ELSE pr.penalizacion
           penalizados == IF tarde THEN con_penalizacion(usuarios, u, penalizacion)
                          ELSE usuarios
       IN  IF ya_devuelto(pr) THEN
               /\ resultado' = ErrYaDevuelto
               /\ UNCHANGED <<publicaciones, usuarios, prestamos>>
           ELSE
               /\ prestamos' = [prestamos EXCEPT
                                   ![l].fecha_devolucion_real = real,
                                   ![l].penalizacion = penalizacion]
               /\ usuarios' = sin_prestamo(penalizados, u, l)
               /\ UNCHANGED publicaciones
               /\ resultado' = OK

\* Prestamo.devolver(), called on the Prestamo at position l of _prestamos
devolver(l) ==
    /\ llamada' = "devolver"
    /\ UNCHANGED <<next_prestamo_id, ahora, pagado>>
    /\ LET pr == prestamos[l]
           u == pr.usuario
           p == pr.publicacion
           real == ahora
           tarde == vencida(pr, real)
           dias_retraso == days(retraso(pr, real))
           penalizacion == IF tarde
                           THEN calcular_penalizacion_retraso(publicaciones[p].tipo,
                                                              dias_retraso)
                           ELSE pr.penalizacion
           penalizados == IF tarde THEN con_penalizacion(usuarios, u, penalizacion)
                          ELSE usuarios
       IN  IF ya_devuelto(pr) THEN
               /\ resultado' = ErrYaDevuelto
               /\ UNCHANGED <<publicaciones, usuarios, prestamos>>
           ELSE
               /\ prestamos' = [prestamos EXCEPT
                                   ![l].fecha_devolucion_real = real,
                                   ![l].penalizacion = penalizacion]
               /\ IF publicaciones[p].disponible THEN
                      \* marcar_devuelto raises after the penalty was posted
                      /\ usuarios' = penalizados
                      /\ UNCHANGED publicaciones
                      /\ resultado' = ErrNoPrestada
                  ELSE
                      /\ usuarios' = sin_prestamo(penalizados, u, l)
                      /\ publicaciones' = [publicaciones EXCEPT ![p].disponible = TRUE]
                      /\ resultado' = OK

\* amounts a caller offers to pagar_penalizacion: the whole balance, all of
\* it but 0.50, and 0.50 more than is owed
Montos(u) ==
    LET saldo == usuarios[u].penalizacion_acumulada
    IN  {m \in {saldo, saldo - 50, saldo + 50} : m >= 0}

\* Usuario.agregar_penalizacion(monto), called on the Usuario at position u
agregar_penalizacion(u, monto) ==
    /\ llamada' = "agregar_penalizacion"
    /\ usuarios' = con_penalizacion(usuarios, u, monto)
    /\ resultado' = OK
    /\ UNCHANGED <<publicaciones, prestamos, next_prestamo_id, ahora, pagado>>

\* pagar_penalizacion refusing also the payment of the whole balance
pagar_penalizacion_tope_estricto(u, monto) ==
    /\ llamada' = "pagar_penalizacion"
    /\ UNCHANGED <<publicaciones, prestamos, next_prestamo_id, ahora>>
    /\ IF monto >= usuarios[u].penalizacion_acumulada THEN
           /\ resultado' = ErrMontoExcede
           /\ UNCHANGED <<usuarios, pagado>>
       ELSE
           /\ usuarios' = [usuarios EXCEPT ![u].penalizacion_acumulada = @ - monto]
           /\ pagado' = [pagado EXCEPT ![u] = @ + monto]
           /\ resultado' = OK

\* pagar_penalizacion without its guard against paying more than is owed
pagar_penalizacion_sin_tope(u, monto) ==
    /\ llamada' = "pagar_penalizacion"
    /\ UNCHANGED <<publicaciones, prestamos, next_prestamo_id, ahora>>
    /\ usuarios' = [usuarios EXCEPT ![u].penalizacion_acumulada = @ - monto]
    /\ pagado' = [pagado EXCEPT ![u] = @ + monto]
    /\ resultado' = OK

\* Usuario.pagar_penalizacion(monto), called on the Usuario at position u
pagar_penalizacion(u, monto) ==
    /\ llamada' = "pagar_penalizacion"
    /\ UNCHANGED <<publicaciones, prestamos, next_prestamo_id, ahora>>
    /\ IF monto > usuarios[u].penalizacion_acumulada THEN
           /\ resultado' = ErrMontoExcede
           /\ UNCHANGED <<usuarios, pagado>>
       ELSE
           /\ usuarios' = [usuarios EXCEPT ![u].penalizacion_acumulada = @ - monto]
           /\ pagado' = [pagado EXCEPT ![u] = @ + monto]
           /\ resultado' = OK

\* marcar_prestado without its guard
marcar_prestado_sin_control(p) ==
    /\ llamada' = "marcar_prestado"
    /\ UNCHANGED <<usuarios, prestamos, next_prestamo_id, ahora, pagado>>
    /\ publicaciones' = [publicaciones EXCEPT ![p].disponible = FALSE]
    /\ resultado' = OK

\* marcar_prestado marking every Publicacion of the catalog
marcar_prestado_de_todas(p) ==
    /\ llamada' = "marcar_prestado"
    /\ UNCHANGED <<usuarios, prestamos, next_prestamo_id, ahora, pagado>>
    /\ IF ~publicaciones[p].disponible THEN
           /\ resultado' = ErrYaPrestada
           /\ UNCHANGED publicaciones
       ELSE
           /\ publicaciones' = [q \in 1..Len(publicaciones) |->
                                   [publicaciones[q] EXCEPT !.disponible = FALSE]]
           /\ resultado' = OK

\* Publicacion.marcar_prestado(), called on the Publicacion at position p
marcar_prestado(p) ==
    /\ llamada' = "marcar_prestado"
    /\ UNCHANGED <<usuarios, prestamos, next_prestamo_id, ahora, pagado>>
    /\ IF ~publicaciones[p].disponible THEN
           /\ resultado' = ErrYaPrestada
           /\ UNCHANGED publicaciones
       ELSE
           /\ publicaciones' = [publicaciones EXCEPT ![p].disponible = FALSE]
           /\ resultado' = OK

\* marcar_devuelto without its guard
marcar_devuelto_sin_control(p) ==
    /\ llamada' = "marcar_devuelto"
    /\ UNCHANGED <<usuarios, prestamos, next_prestamo_id, ahora, pagado>>
    /\ publicaciones' = [publicaciones EXCEPT ![p].disponible = TRUE]
    /\ resultado' = OK

\* Publicacion.marcar_devuelto(), called on the Publicacion at position p
marcar_devuelto(p) ==
    /\ llamada' = "marcar_devuelto"
    /\ UNCHANGED <<usuarios, prestamos, next_prestamo_id, ahora, pagado>>
    /\ IF publicaciones[p].disponible THEN
           /\ resultado' = ErrNoPrestada
           /\ UNCHANGED publicaciones
       ELSE
           /\ publicaciones' = [publicaciones EXCEPT ![p].disponible = TRUE]
           /\ resultado' = OK

\* Biblioteca.agregar_publicacion(publicacion), the Publicacion just constructed
agregar_publicacion(id, tipo) ==
    /\ llamada' = "agregar_publicacion"
    /\ publicaciones' = Append(publicaciones,
                               [id |-> id, tipo |-> tipo, disponible |-> TRUE])
    /\ resultado' = OK
    /\ UNCHANGED <<usuarios, prestamos, next_prestamo_id, ahora, pagado>>

\* Biblioteca.agregar_usuario(usuario), the Usuario just constructed
agregar_usuario(id) ==
    /\ llamada' = "agregar_usuario"
    /\ usuarios' = Append(usuarios,
                          [id |-> id, prestamos_activos |-> <<>>,
                           penalizacion_acumulada |-> 0])
    /\ pagado' = Append(pagado, 0)
    /\ resultado' = OK
    /\ UNCHANGED <<publicaciones, prestamos, next_prestamo_id, ahora>>


\* a call of a method that returns a Prestamo by its id on the Biblioteca,
\* which defines none: Python raises AttributeError
devolver_prestamo(prestamo_id) ==
    /\ llamada' = "devolver_prestamo"
    /\ resultado' = AttributeError
    /\ UNCHANGED <<estado, ahora, pagado>>

\* Biblioteca.crear_prestamo called with a loan period as a third argument,
\* which its signature does not take: Python raises TypeError
crear_prestamo_dias(usuario_id, publicacion_id, dias_prestamo) ==
    /\ llamada' = "crear_prestamo_dias"
    /\ resultado' = TypeError
    /\ UNCHANGED <<estado, ahora, pagado>>

\* the later readings of the clock: a loan made at 0 is due exactly at the
\* first, less than a day overdue at the second, a day and a fraction overdue
\* at the third
Instantes ==
    {timedelta_days(DIAS_PRESTAMO),
     timedelta_days(DIAS_PRESTAMO) + 1,
     timedelta_days(DIAS_PRESTAMO + 1) + 1}

\* a Prestamo not yet returned exists
hay_prestamo_abierto ==
    \E l \in 1..Len(prestamos) : prestamos[l].fecha_devolucion_real = None

\* time passes between two calls: datetime.now() returns a later value.  The
\* code reads the clock when a loan is made and when it is returned and only
\* compares the two readings, so time that passes while no loan is open only
\* shifts the later loans; the clock is advanced while a loan is open.
avanzar_reloj(t) ==
    /\ t > ahora
    /\ hay_prestamo_abierto
    /\ ahora' = t
    /\ llamada' = "avanzar_reloj"
    /\ resultado' = OK
    /\ UNCHANGED estado
    /\ UNCHANGED pagado

(* --------------- crear_prestamo called from several threads ----------- *)

\* Biblioteca.crear_prestamo takes no lock.  A thread executes it statement
\* by statement, the statements of the methods it calls included, and another
\* thread may run between any two of them.  A thread keeps its local
\* variables (usuario, publicacion, prestamo) in its record; the result of
\* its call is written to llamada and resultado when the call ends.

\* the call ends: it returns the Prestamo or raises the ValueError
terminar(h, res) ==
    /\ hilos' = [hilos EXCEPT ![h].pc = "fin", ![h].resultado = res]
    /\ llamada' = "crear_prestamo"
    /\ resultado' = res

\* the call goes on to its next statement
seguir(h, pc) ==
    /\ hilos' = [hilos EXCEPT ![h].pc = pc]
    /\ UNCHANGED <<llamada, resultado>>

\* a thread calls biblioteca.crear_prestamo(usuario_id, publicacion_id)
llamar(h, usuario_id, publicacion_id) ==
    /\ hilos[h].pc = "reposo"
    /\ hilos' = [hilos EXCEPT ![h].pc = "buscar_usuario",
                              ![h].usuario_id = usuario_id,
                              ![h].publicacion_id = publicacion_id]
    /\ UNCHANGED <<biblioteca, llamada, resultado>>

\* usuario = self.buscar_usuario(usuario_id); if not usuario: raise
resolver_usuario(h) ==
    /\ hilos[h].pc = "buscar_usuario"
    /\ LET u == buscar_usuario(hilos[h].usuario_id)
       IN  IF u = NoEncontrado THEN terminar(h, ErrUsuarioNoEncontrado)
           ELSE /\ hilos' = [hilos EXCEPT ![h].pc = "buscar_publicacion",
                                          ![h].usuario = u]
                /\ UNCHANGED <<llamada, resultado>>
    /\ UNCHANGED biblioteca

\* publicacion = self.buscar_publicacion(publicacion_id); if not publicacion: raise
resolver_publicacion(h) ==
    /\ hilos[h].pc = "buscar_publicacion"
    /\ LET p == buscar_publicacion(hilos[h].publicacion_id)
       IN  IF p = NoEncontrado THEN terminar(h, ErrPublicacionNoEncontrada)
           ELSE /\ hilos' = [hilos EXCEPT ![h].pc = "puede_pedir_prestamo",
                                          ![h].publicacion = p]
                /\ UNCHANGED <<llamada, resultado>>
    /\ UNCHANGED biblioteca

\* if not usuario.puede_pedir_prestamo(): raise
verificar_usuario(h) ==
    /\ hilos[h].pc = "puede_pedir_prestamo"
    /\ IF ~puede_pedir_prestamo(hilos[h].usuario)
       THEN terminar(h, ErrNoPuedePedir)
       ELSE seguir(h, "disponible")
    /\ UNCHANGED biblioteca

\* if not publicacion.disponible: raise
verificar_disponible(h) ==
    /\ hilos[h].pc = "disponible"
    /\ IF ~publicaciones[hilos[h].publicacion].disponible
       THEN terminar(h, ErrNoDisponible)
       ELSE seguir(h, "Prestamo")
    /\ UNCHANGED biblioteca

\* prestamo = Prestamo(self._next_prestamo_id, usuario, publicacion)
construir_prestamo(h) ==
    /\ hilos[h].pc = "Prestamo"
    /\ hilos' = [hilos EXCEPT ![h].pc = "leer_next_prestamo_id",
                              ![h].prestamo_id = next_prestamo_id]
    /\ UNCHANGED <<biblioteca, llamada, resultado>>

\* self._next_prestamo_id += 1: the attribute is loaded
leer_next_prestamo_id(h) ==
    /\ hilos[h].pc = "leer_next_prestamo_id"
    /\ hilos' = [hilos EXCEPT ![h].pc = "escribir_next_prestamo_id",
                              ![h].leido = next_prestamo_id]
    /\ UNCHANGED <<biblioteca, llamada, resultado>>

\* self._next_prestamo_id += 1: the sum is stored
escribir_next_prestamo_id(h) ==
    /\ hilos[h].pc = "escribir_next_prestamo_id"
    /\ next_prestamo_id' = hilos[h].leido + 1
    /\ seguir(h, "marcar_prestado")
    /\ UNCHANGED <<publicaciones, usuarios, prestamos, ahora, pagado>>

\* publicacion.marcar_prestado(): if not self._disponible: raise
controlar_prestado(h) ==
    /\ hilos[h].pc = "marcar_prestado"
    /\ IF ~publicaciones[hilos[h].publicacion].disponible
       THEN terminar(h, ErrYaPrestada)
       ELSE seguir(h, "disponible = False")
    /\ UNCHANGED biblioteca

\* publicacion.marcar_prestado(): self._disponible = False
asignar_prestado(h) ==
    /\ hilos[h].pc = "disponible = False"
    /\ publicaciones' = [publicaciones EXCEPT ![hilos[h].publicacion].disponible = FALSE]
    /\ seguir(h, "agregar_prestamo")
    /\ UNCHANGED <<usuarios, prestamos, next_prestamo_id, ahora, pagado>>

\* usuario.agregar_prestamo(prestamo).  A single caller's Prestamo takes the
\* position of the list that equals its id, and by it the Usuario refers to
\* the Prestamo.
adjuntar_prestamo(h) ==
    /\ hilos[h].pc = "agregar_prestamo"
    /\ usuarios' = [usuarios EXCEPT ![hilos[h].usuario].prestamos_activos =
                        Append(@, hilos[h].prestamo_id)]
    /\ seguir(h, "append")
    /\ UNCHANGED <<publicaciones, prestamos, next_prestamo_id, ahora, pagado>>

\* self._prestamos.append(prestamo); return prestamo.  The clock does not
\* advance during the call, so the Prestamo holds the dates it was
\* constructed with.
anexar_prestamo(h) ==
    /\ hilos[h].pc = "append"
    /\ prestamos' = Append(prestamos, NuevoPrestamo(hilos[h].prestamo_id,
                                                    hilos[h].usuario,
                                                    hilos[h].publicacion))
    /\ terminar(h, OK)
    /\ UNCHANGED <<publicaciones, usuarios, next_prestamo_id, ahora, pagado>>

(* ------------------------ src/src/inventario.py ----------------------- *)

\* a nombre is represented by the number of characters it keeps when stripped
\* of whitespace; precio and stock are numbers.  The log holds the kind of each
\* entry, without its timestamp.

\* validar without its check of the stock
validar_sin_stock(nombre, precio, stock) ==
    IF nombre = 0 THEN <<FALSE, ErrNombreVacio>>
    ELSE IF precio <= 0 THEN <<FALSE, ErrPrecio>>
    ELSE <<TRUE, "">>

\* ValidadorProducto.validar(producto): (es_valido, mensaje_error)
validar(nombre, precio, stock) ==
    IF nombre = 0 THEN <<FALSE, ErrNombreVacio>>
    ELSE IF precio <= 0 THEN <<FALSE, ErrPrecio>>
    ELSE IF stock < 0 THEN <<FALSE, ErrStockNegativo>>
    ELSE <<TRUE, "">>

\* InventarioService._registrar_log(mensaje)
registrar_log(mensaje) == Append(log, mensaje)

\* actualizar_stock writing the new stock to every Producto
actualizar_stock_de_todos(id, nuevo_stock) ==
    IF id \in DOMAIN productos
    THEN [i \in DOMAIN productos |-> [productos[i] EXCEPT !.stock = nuevo_stock]]
    ELSE productos

\* BaseDatos.actualizar_stock(id, nuevo_stock)
actualizar_stock(id, nuevo_stock) ==
    IF id \in DOMAIN productos
    THEN [productos EXCEPT ![id].stock = nuevo_stock]
    ELSE productos

\* InventarioService.agregar_producto(nombre, precio, stock), with
\* BaseDatos.guardar_producto of a Producto whose id is 0
agregar_producto(nombre, precio, stock) ==
    /\ llamada' = "agregar_producto"
    /\ LET validacion == validar(nombre, precio, stock)
           id_producto == bd_next_id
       IN  IF ~validacion[1] THEN
               /\ log' = registrar_log("Error validacion")
               /\ resultado' = validacion[2]
               /\ UNCHANGED <<productos, bd_next_id, ventas>>
           ELSE
               /\ bd_next_id' = bd_next_id + 1
               /\ productos' = [i \in DOMAIN productos \cup {id_producto} |->
                                   IF i = id_producto
                                   THEN [id |-> id_producto, nombre |-> nombre,
                                         precio |-> precio, stock |-> stock]
                                   ELSE productos[i]]
               /\ ventas' = [i \in DOMAIN ventas \cup {id_producto} |->
                                IF i = id_producto
                                THEN [inicial |-> stock, vendido |-> 0]
                                ELSE ventas[i]]
               /\ log' = registrar_log("Producto agregado")
               /\ resultado' = ProductoAgregado
    /\ UNCHANGED <<biblioteca, concurrente, gestor>>

\* vender_producto taking the units sold from the stock before it checks it
vender_producto_descuento_anticipado(id_producto, cantidad) ==
    /\ llamada' = "vender_producto"
    /\ IF id_producto \notin DOMAIN productos THEN
           /\ resultado' = ErrProductoNoEncontrado
           /\ UNCHANGED inventario
       ELSE IF cantidad <= 0 THEN
           /\ resultado' = ErrCantidad
           /\ UNCHANGED inventario
       ELSE IF productos[id_producto].stock < cantidad THEN
           /\ productos' = actualizar_stock(id_producto, 0)
           /\ resultado' = ErrStockInsuficiente
           /\ UNCHANGED <<bd_next_id, log, ventas>>
       ELSE
           /\ productos' = actualizar_stock(id_producto,
                                            productos[id_producto].stock - cantidad)
           /\ ventas' = [ventas EXCEPT ![id_producto].vendido = @ + cantidad]
           /\ log' = registrar_log("Venta registrada")
           /\ resultado' = VentaRegistrada
           /\ UNCHANGED bd_next_id
    /\ UNCHANGED <<biblioteca, concurrente, gestor>>

\* InventarioService.vender_producto(id_producto, cantidad)
vender_producto(id_producto, cantidad) ==
    /\ llamada' = "vender_producto"
    /\ IF id_producto \notin DOMAIN productos THEN
           /\ resultado' = ErrProductoNoEncontrado
           /\ UNCHANGED inventario
       ELSE IF cantidad <= 0 THEN
           /\ resultado' = ErrCantidad
           /\ UNCHANGED inventario
       ELSE IF productos[id_producto].stock < cantidad THEN
           /\ resultado' = ErrStockInsuficiente
           /\ UNCHANGED inventario
       ELSE
           /\ productos' = actualizar_stock(id_producto,
                                            productos[id_producto].stock - cantidad)
           /\ ventas' = [ventas EXCEPT ![id_producto].vendido = @ + cantidad]
           /\ log' = registrar_log("Venta registrada")
           /\ resultado' = VentaRegistrada
           /\ UNCHANGED bd_next_id
    /\ UNCHANGED <<biblioteca, concurrente, gestor>>

(* ------------------------ src/src/api_tareas.py ----------------------- *)

\* a titulo is represented by the number of whitespace characters it starts
\* with, the length of the text left when it is stripped, and the number of
\* whitespace characters it ends with; a titulo of whitespace alone counts it
\* at the start.  A Tarea is its titulo and completada.

\* len(titulo)
len(titulo) == titulo.izq + titulo.texto + titulo.der

\* titulo.strip()
strip(titulo) == [izq |-> 0, texto |-> titulo.texto, der |-> 0]

\* Optional[...]: None is <<>>, a value v is <<v>>
Opcional(S) == {<<>>} \cup {<<v>> : v \in S}

\* crear_tarea taking the first id past the number of Tareas stored
crear_tarea_id_libre(titulo) ==
    /\ llamada' = "crear_tarea"
    /\ IF len(titulo) = 0 \/ len(strip(titulo)) = 0 THEN
           /\ resultado' = ErrTituloVacio
           /\ UNCHANGED gestor
       ELSE IF len(titulo) > LIMITE_TITULO THEN
           /\ resultado' = ErrTituloLargo
           /\ UNCHANGED gestor
       ELSE
           LET id == Cardinality(DOMAIN tareas) + 1 IN
           /\ tareas' = [i \in DOMAIN tareas \cup {id} |->
                            IF i = id
                            THEN [id |-> id, titulo |-> strip(titulo),
                                  completada |-> FALSE]
                            ELSE tareas[i]]
           /\ next_id' = id + 1
           /\ resultado' = OK
    /\ UNCHANGED <<biblioteca, concurrente, inventario>>

\* GestorTareas.crear_tarea(titulo, descripcion)
crear_tarea(titulo) ==
    /\ llamada' = "crear_tarea"
    /\ IF len(titulo) = 0 \/ len(strip(titulo)) = 0 THEN
           /\ resultado' = ErrTituloVacio
           /\ UNCHANGED gestor
       ELSE IF len(titulo) > LIMITE_TITULO THEN
           /\ resultado' = ErrTituloLargo
           /\ UNCHANGED gestor
       ELSE
           /\ tareas' = [i \in DOMAIN tareas \cup {next_id} |->
                            IF i = next_id
                            THEN [id |-> next_id, titulo |-> strip(titulo),
                                  completada |-> FALSE]
                            ELSE tareas[i]]
           /\ next_id' = next_id + 1
           /\ resultado' = OK
    /\ UNCHANGED <<biblioteca, concurrente, inventario>>

\* GestorTareas.actualizar_tarea(id, titulo, descripcion, completada)
actualizar_tarea(id, titulo, completada) ==
    /\ llamada' = "actualizar_tarea"
    /\ UNCHANGED next_id
    /\ IF id \notin DOMAIN tareas THEN
           /\ resultado' = TareaNoEncontrada
           /\ UNCHANGED tareas
       ELSE IF titulo # <<>> /\ len(strip(titulo[1])) = 0 THEN
           /\ resultado' = ErrTituloVacio
           /\ UNCHANGED tareas
       ELSE
           /\ tareas' = [tareas EXCEPT
                            ![id].titulo = IF titulo # <<>> THEN strip(titulo[1]) ELSE @,
                            ![id].completada = IF completada # <<>> THEN completada[1] ELSE @]
           /\ resultado' = OK
    /\ UNCHANGED <<biblioteca, concurrente, inventario>>

\* GestorTareas.eliminar_tarea(id)
eliminar_tarea(id) ==
    /\ llamada' = "eliminar_tarea"
    /\ UNCHANGED next_id
    /\ IF id \in DOMAIN tareas THEN
           /\ tareas' = [i \in DOMAIN tareas \ {id} |-> tareas[i]]
           /\ resultado' = OK
       ELSE
           /\ resultado' = TareaNoEncontrada
           /\ UNCHANGED tareas
    /\ UNCHANGED <<biblioteca, concurrente, inventario>>

\* obtener_estadisticas counting every Tarea as completed
obtener_estadisticas_todas_completadas ==
    LET total == Cardinality(DOMAIN tareas)
        completadas == Cardinality(DOMAIN tareas)
        pendientes == total - completadas
    IN  [total |-> total, completadas |-> completadas, pendientes |-> pendientes]

\* GestorTareas.obtener_estadisticas()
obtener_estadisticas ==
    LET total == Cardinality(DOMAIN tareas)
        completadas == Cardinality({i \in DOMAIN tareas : tareas[i].completada})
        pendientes == total - completadas
    IN  [total |-> total, completadas |-> completadas, pendientes |-> pendientes]

(* -------------------------- specifications ---------------------------- *)

\* ids a caller passes: the registered ones and one that is not
UsuarioIds == 1..(Len(usuarios) + 1)
PublicacionIds == 1..(Len(publicaciones) + 1)

\* Usuarios that have had a Prestamo, a penalty or a payment
Estrenados ==
    {prestamos[l].usuario : l \in 1..Len(prestamos)}
        \cup {u \in 1..Len(usuarios) :
                 usuarios[u].penalizacion_acumulada # 0 \/ pagado[u] # 0}

\* Usuarios are constructed alike and the code tells them apart by their id
\* alone (buscar_usuario), so the first Prestamo or penalty of each is explored
\* in the order of registration; an id that is not registered is always tried
EnTurno(uid) == uid > Len(usuarios) \/ uid <= Cardinality(Estrenados) + 1

CrearPrestamo ==
    \E uid \in UsuarioIds, pid \in PublicacionIds :
        EnTurno(uid) /\ crear_prestamo(uid, pid) /\ UNCHANGED ajenos

Devolver == \E l \in 1..Len(prestamos) : devolver(l) /\ UNCHANGED ajenos

PagarPenalizacion ==
    \E u \in 1..Len(usuarios) : \E monto \in Montos(u) :
        pagar_penalizacion(u, monto) /\ UNCHANGED ajenos

AgregarPenalizacion ==
    \E u \in 1..Len(usuarios) : \E monto \in {100} :
        /\ usuarios[u].penalizacion_acumulada + monto <= MaxPenalizacion
        /\ EnTurno(u)
        /\ agregar_penalizacion(u, monto)
        /\ UNCHANGED ajenos

AvanzarReloj == \E t \in Instantes : avanzar_reloj(t) /\ UNCHANGED ajenos

\* loans, returns and payments while time passes
Next ==
    \/ Len(prestamos) < MaxPrestamos /\ CrearPrestamo
    \/ Devolver
    \/ PagarPenalizacion
    \/ AvanzarReloj

Spec == Init /\ [][Next]_vars

\* loans and returns within one instant up to the loan limit, with penalties
\* posted directly on the Usuario
NextLimite ==
    \/ Len(prestamos) < MaxPrestamosLimite /\ CrearPrestamo
    \/ Devolver
    \/ AgregarPenalizacion

SpecLimite == InitLimite /\ [][NextLimite]_vars

AgregarUsuario == agregar_usuario(Len(usuarios) + 1) /\ UNCHANGED ajenos

AgregarPublicacion ==
    /\ agregar_publicacion(Len(publicaciones) + 1, TipoDe(Len(publicaciones) + 1))
    /\ UNCHANGED ajenos

MarcarPrestado ==
    \E p \in 1..Len(publicaciones) : marcar_prestado(p) /\ UNCHANGED ajenos

MarcarDevuelto ==
    \E p \in 1..Len(publicaciones) : marcar_devuelto(p) /\ UNCHANGED ajenos

\* ids of Prestamos a caller passes: those handed out and one that was not
PrestamoIds == 1..next_prestamo_id

DevolverPrestamo ==
    \E id \in PrestamoIds : devolver_prestamo(id) /\ UNCHANGED ajenos

\* loan periods a caller passes, in days: the default and twice the default
Plazos == {DIAS_PRESTAMO, 2 * DIAS_PRESTAMO}

CrearPrestamoDias ==
    \E uid \in UsuarioIds, pid \in PublicacionIds, dias \in Plazos :
        crear_prestamo_dias(uid, pid, dias) /\ UNCHANGED ajenos

\* the catalog is registered, the Publicaciones are marked by their own
\* methods as well as through loans and returns, and returns are asked of the
\* Biblioteca by loan id
NextCatalogo ==
    \/ Len(usuarios) < NumUsuariosLimite /\ AgregarUsuario
    \/ Len(publicaciones) < NumPublicacionesCatalogo /\ AgregarPublicacion
    \/ Len(prestamos) < MaxPrestamosCatalogo /\ CrearPrestamo
    \/ Devolver
    \/ MarcarPrestado
    \/ MarcarDevuelto
    \/ DevolverPrestamo
    \/ AvanzarReloj

SpecCatalogo == InitCatalogo /\ [][NextCatalogo]_vars

\* amounts a caller passes to agregar_penalizacion: 1.00 and -1.00
Ajustes == {100, -100}

AjustarPenalizacion ==
    \E u \in 1..Len(usuarios) : \E monto \in Ajustes :
        /\ usuarios[u].penalizacion_acumulada + monto <= MaxPenalizacion
        /\ usuarios[u].penalizacion_acumulada + monto >= -MaxPenalizacion
        /\ agregar_penalizacion(u, monto)
        /\ UNCHANGED ajenos

\* loans within one instant up to the loan limit, with or without a loan
\* period, and penalties of either sign posted directly on the Usuario
NextContrato ==
    \/ Len(prestamos) < MaxPrestamosLimite /\ CrearPrestamo
    \/ CrearPrestamoDias
    \/ AjustarPenalizacion

SpecContrato == InitContrato /\ [][NextContrato]_vars

Llamar ==
    \E h \in Hilos, uid \in UsuarioIds, pid \in PublicacionIds :
        /\ IF h = 1 THEN TRUE ELSE hilos[h - 1].pc # "reposo"
        /\ llamar(h, uid, pid)
        /\ UNCHANGED <<inventario, gestor>>

ResolverUsuario ==
    \E h \in Hilos : resolver_usuario(h) /\ UNCHANGED <<inventario, gestor>>

ResolverPublicacion ==
    \E h \in Hilos : resolver_publicacion(h) /\ UNCHANGED <<inventario, gestor>>

VerificarUsuario ==
    \E h \in Hilos : verificar_usuario(h) /\ UNCHANGED <<inventario, gestor>>

VerificarDisponible ==
    \E h \in Hilos : verificar_disponible(h) /\ UNCHANGED <<inventario, gestor>>

ConstruirPrestamo ==
    \E h \in Hilos : construir_prestamo(h) /\ UNCHANGED <<inventario, gestor>>

LeerNextPrestamoId ==
    \E h \in Hilos : leer_next_prestamo_id(h) /\ UNCHANGED <<inventario, gestor>>

EscribirNextPrestamoId ==
    \E h \in Hilos : escribir_next_prestamo_id(h) /\ UNCHANGED <<inventario, gestor>>

ControlarPrestado ==
    \E h \in Hilos : controlar_prestado(h) /\ UNCHANGED <<inventario, gestor>>

AsignarPrestado ==
    \E h \in Hilos : asignar_prestado(h) /\ UNCHANGED <<inventario, gestor>>

AdjuntarPrestamo ==
    \E h \in Hilos : adjuntar_prestamo(h) /\ UNCHANGED <<inventario, gestor>>

AnexarPrestamo ==
    \E h \in Hilos : anexar_prestamo(h) /\ UNCHANGED <<inventario, gestor>>

\* a single caller makes loans within one instant, then the threads call
\* crear_prestamo once each and run interleaved
NextConcurrente ==
    \/ /\ Len(prestamos) < MaxPrestamos
       /\ \A h \in Hilos : hilos[h].pc = "reposo"
       /\ CrearPrestamo
    \/ Llamar
    \/ ResolverUsuario
    \/ ResolverPublicacion
    \/ VerificarUsuario
    \/ VerificarDisponible
    \/ ConstruirPrestamo
    \/ LeerNextPrestamoId
    \/ EscribirNextPrestamoId
    \/ ControlarPrestado
    \/ AsignarPrestado
    \/ AdjuntarPrestamo
    \/ AnexarPrestamo

SpecConcurrente == InitContrato /\ [][NextConcurrente]_vars

\* what a caller passes to agregar_producto: a nombre that is empty and one
\* that is not, a precio of 0 and one above it, a stock from -1 up
Nombres == {0, 3}
Precios == {0, 80}
Stocks == -1..MaxStock

AgregarProducto ==
    \E nombre \in Nombres, precio \in Precios, stock \in Stocks :
        /\ Len(log) < MaxLog
        /\ Cardinality(DOMAIN productos) < MaxProductos
        /\ agregar_producto(nombre, precio, stock)

\* ids a caller passes to vender_producto: the stored ones and one that is not
ProductoIds == 1..bd_next_id

\* quantities a caller asks for: from -1 to one more than any stock
Cantidades == -1..(MaxStock + 1)

VenderProducto ==
    \E id_producto \in ProductoIds, cantidad \in Cantidades :
        /\ Len(log) < MaxLog
        /\ vender_producto(id_producto, cantidad)

\* products are added and sold
NextInventario ==
    \/ AgregarProducto
    \/ VenderProducto

SpecInventario == InitCatalogo /\ [][NextInventario]_vars

\* titulos a caller passes: empty, of whitespace alone, of one character, of
\* LIMITE_TITULO characters and of one more, each also after a whitespace
Titulos ==
    {[izq |-> i, texto |-> t, der |-> 0] :
        i \in {0, 1}, t \in {0, 1, LIMITE_TITULO, LIMITE_TITULO + 1}}

\* ids a caller passes: those handed out and one that was not
TareaIds == 1..next_id

CrearTarea ==
    \E titulo \in Titulos : next_id <= MaxTareas /\ crear_tarea(titulo)

ActualizarTarea ==
    \E id \in TareaIds, titulo \in Opcional(Titulos), completada \in Opcional(BOOLEAN) :
        actualizar_tarea(id, titulo, completada)

EliminarTarea == \E id \in TareaIds : eliminar_tarea(id)

\* tasks are created, updated and deleted
NextTareas ==
    \/ CrearTarea
    \/ ActualizarTarea
    \/ EliminarTarea

SpecTareas == InitCatalogo /\ [][NextTareas]_vars

\* a caller registers a Usuario it constructed with an id of its choice
RegistrarUsuario ==
    \E id \in UsuarioIds : agregar_usuario(id) /\ UNCHANGED ajenos

\* a caller registers a Publicacion it constructed with an id of its choice
RegistrarPublicacion ==
    \E id \in PublicacionIds : agregar_publicacion(id, TipoDe(id)) /\ UNCHANGED ajenos

PedirPrestamo ==
    \E uid \in UsuarioIds, pid \in PublicacionIds :
        crear_prestamo(uid, pid) /\ UNCHANGED ajenos

\* the catalog is registered with ids the caller chooses, and loans are made
NextRegistro ==
    \/ Len(usuarios) < NumUsuarios /\ RegistrarUsuario
    \/ Len(publicaciones) < NumPublicacionesCatalogo /\ RegistrarPublicacion
    \/ Len(prestamos) < MaxPrestamos /\ PedirPrestamo

SpecRegistro == InitCatalogo /\ [][NextRegistro]_vars

\* a small catalog, so that every Publicacion can be on loan while a Usuario
\* may not borrow
InitOrden == Catalogo(NumUsuarios, NumPublicacionesCatalogo)

\* loans are asked for within one instant, before and after every Publicacion
\* is on loan, and penalties are posted directly on the Usuario
NextOrden ==
    \/ CrearPrestamo
    \/ AgregarPenalizacion

SpecOrden == InitOrden /\ [][NextOrden]_vars

(* ------------------------------ claims -------------------------------- *)

Activos(u) == usuarios[u].prestamos_activos
Saldo(u) == usuarios[u].penalizacion_acumulada
Devuelto(l) == prestamos[l].fecha_devolucion_real # None

\* C1: after any sequence of crear_prestamo and devolver calls starting from a
\* catalog without loans, no Usuario holds more than 3 active loans.
C1_LimitePrestamosActivos ==
    \A u \in 1..Len(usuarios) : Len(Activos(u)) <= 3

\* a Usuario holding 3 loans and owing nothing was refused an available Publicacion
C1_Testigo ==
    /\ llamada = "crear_prestamo"
    /\ resultado = ErrNoPuedePedir
    /\ \E u \in 1..Len(usuarios) :
          /\ Len(Activos(u)) = 3 /\ Saldo(u) = 0
          /\ \A v \in 1..Len(usuarios) \ {u} : Len(Activos(v)) < 3 /\ Saldo(v) = 0
    /\ \E p \in 1..Len(publicaciones) : publicaciones[p].disponible

\* C2: crear_prestamo never succeeds for a Usuario whose accumulated penalty is
\* > 0 when it is called, whatever the number of active loans and whatever the
\* Publicacion asked for: no step adds a Prestamo for such a Usuario.
C2_PenalizadoNoRecibePrestamo ==
    [][ llamada' = "crear_prestamo" =>
          \A uid \in UsuarioIds, pid \in PublicacionIds :
            (/\ \E u \in 1..Len(usuarios) : usuarios[u].id = uid /\ Saldo(u) > 0
             /\ crear_prestamo(uid, pid))
            => /\ resultado' # OK
               /\ prestamos' = prestamos
               /\ \A u \in 1..Len(usuarios) : Activos(u)' = Activos(u) ]_vars

\* a Usuario owing a penalty, below the loan limit, was refused an available
\* Publicacion
C2_Testigo ==
    /\ llamada = "crear_prestamo"
    /\ resultado = ErrNoPuedePedir
    /\ \E p \in 1..Len(publicaciones) : publicaciones[p].disponible
    /\ \E u \in 1..Len(usuarios) :
          /\ Saldo(u) > 0 /\ Len(Activos(u)) = 2
          /\ \A v \in 1..Len(usuarios) \ {u} : Len(Activos(v)) < 3 /\ Saldo(v) = 0

\* C3: a crear_prestamo that fails at any of its four checks mutates nothing:
\* the Publicaciones, the Usuarios (active loans and balances), the Prestamos
\* and the next loan id are as before the call.
C3_FalloSinMutacion ==
    [][ (llamada' = "crear_prestamo" /\ resultado' # OK)
          => UNCHANGED <<publicaciones, usuarios, prestamos, next_prestamo_id>> ]_vars

\* a Publicacion on loan to one Usuario was refused to another, who could borrow
C3_Testigo ==
    /\ llamada = "crear_prestamo"
    /\ resultado = ErrNoDisponible
    /\ \E l \in 1..Len(prestamos) : \E u \in 1..Len(usuarios) :
          /\ ~Devuelto(l)
          /\ prestamos[l].usuario # u
          /\ Len(Activos(u)) < 3 /\ Saldo(u) = 0

C5_EfectoDelPrestamo ==
    [][ (llamada' = "crear_prestamo" /\ resultado' = OK) =>
        \A uid \in UsuarioIds, pid \in PublicacionIds :
          crear_prestamo(uid, pid) =>
            \E u \in 1..Len(usuarios), p \in 1..Len(publicaciones) :
               /\ usuarios[u].id = uid
               /\ publicaciones[p].id = pid
               /\ publicaciones[p].disponible
               /\ publicaciones' = [publicaciones EXCEPT ![p].disponible = FALSE]
               /\ Len(prestamos') = Len(prestamos) + 1
               /\ SubSeq(prestamos', 1, Len(prestamos)) = prestamos
               /\ LET n == prestamos'[Len(prestamos')]
                  IN  /\ n.id = next_prestamo_id
                      /\ n.usuario = u
                      /\ n.publicacion = p
                      /\ n.fecha_devolucion_real = None
                      /\ n.penalizacion = 0
               /\ usuarios' = [usuarios EXCEPT ![u].prestamos_activos =
                                   Append(@, Len(prestamos'))]
               /\ next_prestamo_id' = next_prestamo_id + 1 ]_vars

\* a second loan was made while another Usuario held a loan or owed a penalty
C5_Testigo ==
    /\ llamada = "crear_prestamo"
    /\ resultado = OK
    /\ Len(prestamos) = 2
    /\ \E v \in 1..Len(usuarios) :
          /\ v # prestamos[2].usuario
          /\ (Activos(v) # <<>> \/ Saldo(v) > 0)

\* C6: devolver succeeds at most once for a Prestamo; every call after the
\* return fails with "ya fue devuelto" and leaves the Prestamo's return date
\* and penalty, the Usuario's balance and active loans and the Publicacion's
\* availability as the first return left them.
C6_DevolverUnaSolaVez ==
    [][ llamada' = "devolver" =>
        \A l \in 1..Len(prestamos) :
          /\ (Devuelto(l) /\ devolver(l)) =>
                /\ resultado' = ErrYaDevuelto
                /\ UNCHANGED <<publicaciones, usuarios, prestamos>>
          /\ (resultado' = OK /\ devolver(l)) => ~Devuelto(l) /\ Devuelto(l)' ]_vars

\* the only Prestamo, returned late with a penalty, was returned again, and
\* refused
C6_Testigo ==
    /\ llamada = "devolver"
    /\ resultado = ErrYaDevuelto
    /\ Len(prestamos) = 1
    /\ Devuelto(1)
    /\ prestamos[1].penalizacion > 0
    /\ Saldo(prestamos[1].usuario) = prestamos[1].penalizacion

\* daily rate of the claim, in hundredths
TarifaDiaria(tipo) ==
    CASE tipo = "Libro" -> 100 [] tipo = "Revista" -> 50 [] tipo = "DVD" -> 200

\* whole days from the due date to the return date, 0 if not after it
DiasTarde(pr) ==
    IF pr.fecha_devolucion_real > pr.fecha_devolucion_esperada
    THEN (pr.fecha_devolucion_real - pr.fecha_devolucion_esperada) \div UnidadesPorDia
    ELSE 0

\* C7: the penalty recorded on a returned Prestamo is d * rate, d the whole days
\* (floored, never negative) from the due date to the actual return date and
\* rate 1.00 for a Libro, 0.50 for a Revista, 2.00 for a DVD; it stays so
\* whatever the clock reads later.
C7_LeyDePenalizacion ==
    \A l \in 1..Len(prestamos) :
        Devuelto(l) =>
            /\ DiasTarde(prestamos[l]) >= 0
            /\ prestamos[l].penalizacion =
                  DiasTarde(prestamos[l])
                    * TarifaDiaria(publicaciones[prestamos[l].publicacion].tipo)

\* one Prestamo was returned a whole number of days and a fraction late;
\* another was returned less than a day late and the clock has since passed
\* the first whole day
C7_Testigo ==
    /\ \E l \in 1..Len(prestamos) :
          /\ Devuelto(l)
          /\ DiasTarde(prestamos[l]) >= 1
          /\ (prestamos[l].fecha_devolucion_real
                - prestamos[l].fecha_devolucion_esperada) % UnidadesPorDia # 0
          /\ prestamos[l].penalizacion > 0
    /\ \E l \in 1..Len(prestamos) :
          /\ Devuelto(l)
          /\ prestamos[l].fecha_devolucion_real > prestamos[l].fecha_devolucion_esperada
          /\ prestamos[l].penalizacion = 0
          /\ ahora - prestamos[l].fecha_devolucion_esperada >= UnidadesPorDia

\* sum of the penalties recorded on the returned Prestamos 1..n of Usuario u
RECURSIVE PenalizacionesDe(_, _)
PenalizacionesDe(u, n) ==
    IF n = 0 THEN 0
    ELSE PenalizacionesDe(u, n - 1)
           + (IF prestamos[n].usuario = u /\ Devuelto(n)
              THEN prestamos[n].penalizacion ELSE 0)

C8_Saldo ==
    \A u \in 1..Len(usuarios) :
        Saldo(u) = PenalizacionesDe(u, Len(prestamos)) - pagado[u]

C8_Paso ==
    \A l \in 1..Len(prestamos) :
        (~Devuelto(l) /\ Devuelto(l)') =>
            \A u \in 1..Len(usuarios) :
                Saldo(u)' = Saldo(u) + (IF u = prestamos[l].usuario
                                        THEN prestamos'[l].penalizacion ELSE 0)

\* C8: a return posts the Prestamo's penalty to its own Usuario and to nobody
\* else, so after any sequence of crear_prestamo, devolver and
\* pagar_penalizacion calls a Usuario's balance is the sum of the penalties of
\* that Usuario's returned Prestamos minus the sum of the payments accepted.
C8_PenalizacionAlUsuario == []C8_Saldo /\ [][C8_Paso]_vars

\* a late return added its penalty to a balance that was already owed
C8_Testigo ==
    /\ llamada = "devolver"
    /\ resultado = OK
    /\ \E l \in 1..Len(prestamos) :
          /\ Devuelto(l)
          /\ prestamos[l].fecha_devolucion_real = ahora
          /\ prestamos[l].penalizacion > 0
          /\ Saldo(prestamos[l].usuario) > prestamos[l].penalizacion

\* C9: a Prestamo returned not later than its due date (7 days after the
\* loan), also exactly at it, gets penalty 0 and leaves its Usuario's balance
\* unchanged, so that a Usuario who could borrow before the return can borrow
\* after it.
C9_DevolucionATiempo ==
    [][ \A l \in 1..Len(prestamos) :
          (/\ ~Devuelto(l) /\ Devuelto(l)'
           /\ prestamos'[l].fecha_devolucion_real
                <= prestamos[l].fecha_prestamo + 7 * UnidadesPorDia) =>
            LET u == prestamos[l].usuario
            IN  /\ prestamos'[l].penalizacion = 0
                /\ Saldo(u)' = Saldo(u)
                /\ (Len(Activos(u)) <= 3 /\ Saldo(u) = 0) =>
                       (Len(Activos(u)') < 3 /\ Saldo(u)' = 0) ]_vars

\* a Prestamo was returned exactly at its due date, without penalty
C9_Testigo ==
    /\ llamada = "devolver"
    /\ resultado = OK
    /\ \E l \in 1..Len(prestamos) :
          /\ prestamos[l].fecha_devolucion_real = ahora
          /\ prestamos[l].fecha_devolucion_real = prestamos[l].fecha_devolucion_esperada
          /\ prestamos[l].fecha_devolucion_real > prestamos[l].fecha_prestamo
          /\ prestamos[l].penalizacion = 0
          /\ Saldo(prestamos[l].usuario) = 0

\* C10: every successful return, late or not, leaves the Prestamo's Publicacion
\* available and removes exactly that Prestamo from its Usuario's active loans:
\* the count drops by 1 and the other active loans are untouched.
C10_DevolucionLibera ==
    [][ \A l \in 1..Len(prestamos) :
          (~Devuelto(l) /\ Devuelto(l)' /\ resultado' = OK) =>
            LET u == prestamos[l].usuario
                p == prestamos[l].publicacion
                Otro(x) == x # l
            IN  /\ publicaciones' = [publicaciones EXCEPT ![p].disponible = TRUE]
                /\ Len(Activos(u)') = Len(Activos(u)) - 1
                /\ Activos(u)' = SelectSeq(Activos(u), Otro)
                /\ \A v \in 1..Len(usuarios) : v # u => Activos(v)' = Activos(v) ]_vars

\* the older of a Usuario's two loans was returned late; the newer one is still
\* active
C10_Testigo ==
    /\ llamada = "devolver"
    /\ resultado = OK
    /\ \E l \in 1..Len(prestamos) :
          /\ prestamos[l].fecha_devolucion_real = ahora
          /\ prestamos[l].penalizacion > 0
          /\ publicaciones[prestamos[l].publicacion].disponible
          /\ \E k \in 1..Len(prestamos) :
                k > l /\ Activos(prestamos[l].usuario) = <<k>>

\* C11: marcar_prestado on a Publicacion that is already on loan and
\* marcar_devuelto on one that is already available always fail with an error
\* and leave the availability and every other piece of state unchanged.
C11_MarcaInvalidaFalla ==
    [][ llamada' \in {"marcar_prestado", "marcar_devuelto"} =>
        \A p \in 1..Len(publicaciones) :
          /\ (~publicaciones[p].disponible /\ marcar_prestado(p)) =>
                /\ resultado' = ErrYaPrestada
                /\ UNCHANGED <<estado, ahora, pagado>>
          /\ (publicaciones[p].disponible /\ marcar_devuelto(p)) =>
                /\ resultado' = ErrNoPrestada
                /\ UNCHANGED <<estado, ahora, pagado>> ]_vars

\* marcar_prestado was refused on a Publicacion that is out on a loan
C11_Testigo ==
    /\ llamada = "marcar_prestado"
    /\ resultado = ErrYaPrestada
    /\ \E l \in 1..Len(prestamos) :
          /\ ~Devuelto(l)
          /\ ~publicaciones[prestamos[l].publicacion].disponible

\* a Publicacion on loan can be marked returned, an available one marked on loan
C12_Reutilizable ==
    \A p \in 1..Len(publicaciones) :
        IF publicaciones[p].disponible
        THEN ENABLED (marcar_prestado(p) /\ resultado' = OK)
        ELSE ENABLED (marcar_devuelto(p) /\ resultado' = OK)

C12_Paso ==
    /\ Len(publicaciones') > Len(publicaciones) =>
          publicaciones'[Len(publicaciones')].disponible
    /\ \A p \in 1..Len(publicaciones) :
          /\ (publicaciones[p].disponible /\ ~publicaciones'[p].disponible) =>
                resultado' = OK /\ llamada' \in {"marcar_prestado", "crear_prestamo"}
          /\ (~publicaciones[p].disponible /\ publicaciones'[p].disponible) =>
                resultado' = OK /\ llamada' \in {"marcar_devuelto", "devolver"}
          /\ (marcar_prestado(p) /\ resultado' = OK) =>
                publicaciones[p].disponible /\ ~publicaciones'[p].disponible
          /\ (marcar_devuelto(p) /\ resultado' = OK) =>
                ~publicaciones[p].disponible /\ publicaciones'[p].disponible

\* C12: every Publicacion starts available; its availability changes only by a
\* successful marcar_prestado (available to on loan, also within crear_prestamo)
\* or a successful marcar_devuelto (on loan to available, also within devolver),
\* so the two alternate strictly; neither state is terminal.
C12_Alternancia == []C12_Reutilizable /\ [][C12_Paso]_vars

\* a Publicacion that was lent and returned has been marked on loan again
C12_Testigo ==
    /\ llamada = "marcar_prestado"
    /\ resultado = OK
    /\ \E l \in 1..Len(prestamos) :
          /\ Devuelto(l)
          /\ Activos(prestamos[l].usuario) = <<>>
          /\ ~publicaciones[prestamos[l].publicacion].disponible

\* C13: a Usuario with fewer than 3 active loans and a balance b > 0 who asks
\* for a registered, available Publicacion is refused with "no puede pedir
\* prestamos"; pagar_penalizacion(b) brings the balance to 0 and changes nothing
\* else, and with balance 0 the same crear_prestamo succeeds; a payment of less
\* than b leaves a balance > 0, so the refusal stands.
C13_PagoLevantaBloqueo ==
    [][ /\ llamada' = "crear_prestamo" =>
            \A uid \in UsuarioIds, pid \in PublicacionIds :
              \A u \in 1..Len(usuarios), p \in 1..Len(publicaciones) :
                (/\ usuarios[u].id = uid /\ publicaciones[p].id = pid
                 /\ Len(Activos(u)) < 3 /\ publicaciones[p].disponible
                 /\ crear_prestamo(uid, pid)) =>
                    /\ Saldo(u) > 0 => resultado' = ErrNoPuedePedir
                    /\ Saldo(u) = 0 => resultado' = OK
        /\ llamada' = "pagar_penalizacion" =>
            \A u \in 1..Len(usuarios) : \A monto \in Montos(u) :
                (Saldo(u) > 0 /\ pagar_penalizacion(u, monto)) =>
                    /\ monto = Saldo(u) =>
                          /\ resultado' = OK
                          /\ Saldo(u)' = 0
                          /\ Activos(u)' = Activos(u)
                          /\ UNCHANGED <<publicaciones, prestamos>>
                    /\ monto < Saldo(u) => Saldo(u)' > 0 ]_vars

\* a Usuario who had paid off a penalty was granted a loan
C13_Testigo ==
    /\ llamada = "crear_prestamo"
    /\ resultado = OK
    /\ Len(prestamos) >= 2
    /\ LET u == prestamos[Len(prestamos)].usuario
       IN  /\ pagado[u] > 0
           /\ Saldo(u) = 0
           /\ PenalizacionesDe(u, Len(prestamos)) = pagado[u]

\* C14: pagar_penalizacion(monto) fails with "el monto excede la penalizacion
\* acumulada" when monto is greater than the balance and leaves the balance
\* unchanged; otherwise the new balance is the old one minus monto; the
\* Usuario's active loans, the other Usuarios, the Publicaciones and the
\* Prestamos do not change.
C14_PagarPenalizacion ==
    [][ llamada' = "pagar_penalizacion" =>
        \A u \in 1..Len(usuarios) : \A monto \in Montos(u) :
            pagar_penalizacion(u, monto) =>
                /\ monto > Saldo(u) =>
                      resultado' = ErrMontoExcede /\ Saldo(u)' = Saldo(u)
                /\ monto <= Saldo(u) =>
                      resultado' = OK /\ Saldo(u)' = Saldo(u) - monto
                /\ Activos(u)' = Activos(u)
                /\ \A v \in 1..Len(usuarios) : v # u => usuarios'[v] = usuarios[v]
                /\ UNCHANGED <<publicaciones, prestamos, next_prestamo_id>> ]_vars

\* a Usuario holding a loan paid a part of what is owed
C14_Testigo ==
    /\ llamada = "pagar_penalizacion"
    /\ resultado = OK
    /\ \E u \in 1..Len(usuarios) :
          /\ pagado[u] > 0
          /\ Saldo(u) > 0
          /\ PenalizacionesDe(u, Len(prestamos)) = Saldo(u) + pagado[u]
          /\ pagado[u] < PenalizacionesDe(u, Len(prestamos))
          /\ Activos(u) # <<>>

\* C15: a devolver that fails because its Publicacion is not on loan
\* (marcar_devuelto raises "no esta prestada") mutates nothing: the Prestamo
\* still has no return date and penalty 0, no penalty has been posted to the
\* Usuario, and the Usuario's active loans are unchanged.
C15_DevolucionFallidaSinMutacion ==
    [][ (llamada' = "devolver" /\ resultado' = ErrNoPrestada) =>
        \A l \in 1..Len(prestamos) :
            devolver(l) =>
                LET u == prestamos[l].usuario
                IN  /\ prestamos'[l].fecha_devolucion_real = None
                    /\ prestamos'[l].penalizacion = 0
                    /\ Saldo(u)' = Saldo(u)
                    /\ Activos(u)' = Activos(u) ]_vars

\* the error the claim names for an id that is not among the Prestamos
ErrPrestamoNoEncontrado == "Prestamo no encontrado"

\* C16: the Biblioteca returns a Prestamo by its id: for an id that is not
\* among its Prestamos the call fails with "prestamo no encontrado" and mutates
\* nothing; for a known id it has the effect of that Prestamo's devolver (the
\* return date is set at the first call), and a second call on the same id
\* fails with "ya fue devuelto".
C16_DevolverPorId ==
    [][ llamada' = "devolver_prestamo" =>
        \A id \in PrestamoIds :
            devolver_prestamo(id) =>
                LET l == PrimerIndice(prestamos, id, 1)
                IN  IF l = NoEncontrado THEN
                        /\ resultado' = ErrPrestamoNoEncontrado
                        /\ UNCHANGED estado
                    ELSE IF Devuelto(l) THEN
                        /\ resultado' = ErrYaDevuelto
                        /\ UNCHANGED estado
                    ELSE
                        /\ prestamos'[l].fecha_devolucion_real = ahora
                        /\ resultado' \in {OK, ErrNoPrestada} ]_vars

\* C17: when crear_prestamo refuses with "no puede pedir prestamos", the
\* outcome tells the caller which condition failed: no outcome is at once that
\* of refusing a Usuario for holding 3 loans (who owes nothing) and that of
\* refusing a Usuario for an unpaid penalty (who holds fewer than 3).
C17_CausaDistinguible ==
    [][ (llamada' = "crear_prestamo" /\ resultado' = ErrNoPuedePedir) =>
        \A uidA \in UsuarioIds, uidB \in UsuarioIds, pid \in PublicacionIds :
          \A a \in 1..Len(usuarios), b \in 1..Len(usuarios) :
            ~ (/\ usuarios[a].id = uidA /\ usuarios[b].id = uidB
               /\ Len(Activos(a)) = 3 /\ Saldo(a) = 0
               /\ Len(Activos(b)) < 3 /\ Saldo(b) > 0
               /\ crear_prestamo(uidA, pid)
               /\ crear_prestamo(uidB, pid)) ]_vars

\* C18: crear_prestamo takes the loan period from its caller: a call with a
\* period that meets the four conditions creates a Prestamo whose due date is
\* its loan date plus that period, which is the loan date plus 7 days only when
\* the period given is 7 days.
C18_PlazoDelPrestamo ==
    [][ llamada' = "crear_prestamo_dias" =>
        \A uid \in UsuarioIds, pid \in PublicacionIds, dias \in Plazos :
          \A u \in 1..Len(usuarios), p \in 1..Len(publicaciones) :
            (/\ usuarios[u].id = uid /\ publicaciones[p].id = pid
             /\ Len(Activos(u)) < 3 /\ Saldo(u) = 0 /\ publicaciones[p].disponible
             /\ crear_prestamo_dias(uid, pid, dias)) =>
                /\ Len(prestamos') = Len(prestamos) + 1
                /\ LET n == prestamos'[Len(prestamos')]
                   IN  /\ n.fecha_prestamo = ahora
                       /\ n.fecha_devolucion_esperada
                             = n.fecha_prestamo + dias * UnidadesPorDia ]_vars

\* while a Prestamo has no return date its penalty is 0
C19_Activo ==
    \A l \in 1..Len(prestamos) : ~Devuelto(l) => prestamos[l].penalizacion = 0

\* no step removes a Prestamo or changes the return date or the penalty of one
\* that has a return date
C19_Paso ==
    /\ Len(prestamos') >= Len(prestamos)
    /\ \A l \in 1..Len(prestamos) :
          Devuelto(l) =>
              /\ prestamos'[l].fecha_devolucion_real = prestamos[l].fecha_devolucion_real
              /\ prestamos'[l].penalizacion = prestamos[l].penalizacion

\* C19: a Prestamo goes from active to returned once and stays returned: while
\* it is active its return date is absent and its penalty is 0; once the return
\* date is set, no later operation (crear_prestamo, devolver of this or of
\* another Prestamo, pagar_penalizacion) changes its return date or penalty.
C19_CicloDelPrestamo == []C19_Activo /\ [][C19_Paso]_vars

\* after a Prestamo was returned late, its Usuario paid, borrowed again and
\* returned the second Prestamo
C19_Testigo ==
    /\ llamada = "devolver"
    /\ resultado = OK
    /\ Len(prestamos) = 2
    /\ Devuelto(1) /\ Devuelto(2)
    /\ prestamos[1].penalizacion > 0
    /\ prestamos[2].usuario = prestamos[1].usuario
    /\ prestamos[2].fecha_prestamo >= prestamos[1].fecha_devolucion_real
    /\ pagado[prestamos[1].usuario] >= prestamos[1].penalizacion

\* C20: a Usuario's accumulated penalty is non-negative in every reachable
\* state, after any sequence of agregar_penalizacion, pagar_penalizacion,
\* crear_prestamo and devolver calls with any amounts the operations accept.
C20_PenalizacionNoNegativa ==
    \A u \in 1..Len(usuarios) : Saldo(u) >= 0

\* C21: when two calls of crear_prestamo for the same Usuario and different
\* Publicaciones run with their statements interleaved, they never both
\* succeed and leave the Usuario with more than 3 active loans.
C21_VerificarYAdjuntarInseparables ==
    \A h1, h2 \in Hilos :
        (/\ h1 # h2
         /\ hilos[h1].pc = "fin" /\ hilos[h1].resultado = OK
         /\ hilos[h2].pc = "fin" /\ hilos[h2].resultado = OK
         /\ hilos[h1].usuario = hilos[h2].usuario
         /\ hilos[h1].publicacion # hilos[h2].publicacion)
        => Len(Activos(hilos[h1].usuario)) <= MAX_PRESTAMOS_ACTIVOS

\* Prestamos not returned that hold the Publicacion at position p
PrestamosAbiertosDe(p) ==
    {l \in 1..Len(prestamos) : prestamos[l].publicacion = p /\ ~Devuelto(l)}

\* Prestamos not returned of the Usuario at position u
PrestamosAbiertosDelUsuario(u) ==
    {l \in 1..Len(prestamos) : prestamos[l].usuario = u /\ ~Devuelto(l)}

\* C22: when two calls of crear_prestamo by different Usuarios for the same
\* Publicacion run with their statements interleaved, at most one succeeds,
\* the Publicacion is held by at most one open Prestamo, and the call that
\* fails has mutated nothing: every loan id handed out belongs to a Prestamo
\* of the collection and every active loan of the two Usuarios is one of them.
C22_UnSoloPrestamoPorPublicacion ==
    \A h1, h2 \in Hilos :
        (/\ h1 # h2
         /\ hilos[h1].pc = "fin" /\ hilos[h2].pc = "fin"
         /\ hilos[h1].publicacion # NoEncontrado
         /\ hilos[h1].publicacion = hilos[h2].publicacion
         /\ hilos[h1].usuario # hilos[h2].usuario)
        => /\ ~(hilos[h1].resultado = OK /\ hilos[h2].resultado = OK)
           /\ Cardinality(PrestamosAbiertosDe(hilos[h1].publicacion)) <= 1
           /\ next_prestamo_id = Len(prestamos) + 1
           /\ \A h \in {h1, h2} :
                 Len(Activos(hilos[h].usuario)) =
                     Cardinality(PrestamosAbiertosDelUsuario(hilos[h].usuario))

\* C23: after any sequence of agregar_publicacion, agregar_usuario and
\* crear_prestamo calls, no two Publicaciones of the Biblioteca share an id, no
\* two Usuarios share an id and no two Prestamos share an id.
C23_IdsUnicos ==
    /\ \A i, j \in 1..Len(publicaciones) :
          publicaciones[i].id = publicaciones[j].id => i = j
    /\ \A i, j \in 1..Len(usuarios) : usuarios[i].id = usuarios[j].id => i = j
    /\ \A i, j \in 1..Len(prestamos) : prestamos[i].id = prestamos[j].id => i = j

\* C24: every Prestamo of the Biblioteca refers to a Usuario and a Publicacion
\* registered in the same Biblioteca, when it is made and in every later state.
C24_ReferenciasRegistradas ==
    \A l \in 1..Len(prestamos) :
        /\ prestamos[l].usuario \in 1..Len(usuarios)
        /\ prestamos[l].publicacion \in 1..Len(publicaciones)

\* a Publicacion was registered after a Prestamo had been made and returned
C24_Testigo ==
    /\ llamada = "agregar_publicacion"
    /\ Len(prestamos) >= 1
    /\ Devuelto(1)
    /\ Len(publicaciones) > prestamos[1].publicacion

\* ids of the Prestamos that obtener_prestamos_vencidos returns
C25_Listados ==
    {obtener_prestamos_vencidos[i].id : i \in 1..Len(obtener_prestamos_vencidos)}

\* the Prestamos listed are those not returned whose due date has passed
C25_Exactos ==
    \A l \in 1..Len(prestamos) :
        prestamos[l].id \in C25_Listados <=>
            (/\ prestamos[l].fecha_devolucion_real = None
             /\ prestamos[l].fecha_devolucion_esperada < ahora)

\* a Prestamo that is returned in a step is not listed after it
C25_Paso ==
    \A l \in 1..Len(prestamos) :
        (~Devuelto(l) /\ Devuelto(l)') => prestamos[l].id \notin C25_Listados'

\* C25: obtener_prestamos_vencidos returns exactly the Prestamos for which
\* esta_vencido holds when it is called: every Prestamo not returned whose due
\* date is before the current time, no returned Prestamo, and a Prestamo that
\* was listed is no longer listed once it is returned.
C25_PrestamosVencidos == []C25_Exactos /\ [][C25_Paso]_vars

\* an overdue Prestamo was returned and is no longer listed while another
\* overdue Prestamo still is
C25_Testigo ==
    /\ llamada = "devolver"
    /\ resultado = OK
    /\ \E l \in 1..Len(prestamos) :
          /\ Devuelto(l)
          /\ prestamos[l].fecha_devolucion_real > prestamos[l].fecha_devolucion_esperada
          /\ prestamos[l].id \notin C25_Listados
    /\ C25_Listados # {}

\* the sale asked for is one vender_producto accepts
C26_Vendible(id_producto, cantidad) ==
    /\ id_producto \in DOMAIN productos
    /\ 0 < cantidad
    /\ cantidad <= productos[id_producto].stock

\* an accepted sale takes exactly cantidad from the stock of its Producto,
\* leaves the other Productos alone and writes one entry to the log
C26_Venta ==
    \A id_producto \in ProductoIds, cantidad \in Cantidades :
        (C26_Vendible(id_producto, cantidad) /\ vender_producto(id_producto, cantidad))
        => /\ resultado' = VentaRegistrada
           /\ DOMAIN productos' = DOMAIN productos
           /\ productos'[id_producto].stock = productos[id_producto].stock - cantidad
           /\ \A i \in DOMAIN productos \ {id_producto} :
                 productos'[i].stock = productos[i].stock
           /\ Len(log') = Len(log) + 1

\* the stock of every Producto is the stock it was added with less the units sold
C26_Balance ==
    \A i \in DOMAIN productos :
        productos[i].stock = ventas[i].inicial - ventas[i].vendido

\* C26: vender_producto of a stored Producto with 0 < cantidad <= stock
\* succeeds, reduces the stock of that Producto by exactly cantidad, leaves the
\* stock of every other Producto unchanged and appends exactly one log entry;
\* after any sequence of successful adds and sales the stock of each Producto
\* is its initial stock less the sum of the quantities sold.
C26_VentaDescuentaStock == []C26_Balance /\ [][C26_Venta]_vars

\* two Productos are stored, one was sold out in two sales and the other keeps
\* the stock it was added with
C26_Testigo ==
    /\ llamada = "vender_producto"
    /\ resultado = VentaRegistrada
    /\ \E i, j \in DOMAIN productos :
          /\ i # j
          /\ productos[i].stock = 0 /\ ventas[i].vendido = 2
          /\ productos[j].stock > 0 /\ ventas[j].vendido = 0
    /\ Len(log) = 4

\* the sale asked for is one vender_producto refuses
C27_Rechazable(id_producto, cantidad) ==
    \/ id_producto \notin DOMAIN productos
    \/ cantidad <= 0
    \/ cantidad > productos[id_producto].stock

\* C27: a vender_producto that is refused (unknown id, cantidad <= 0, or
\* cantidad greater than the stock) returns a failure and leaves the stock of
\* every Producto unchanged.
C27_VentaRechazada ==
    [][ \A id_producto \in ProductoIds, cantidad \in Cantidades :
          (C27_Rechazable(id_producto, cantidad) /\ vender_producto(id_producto, cantidad))
          => /\ resultado' \in {ErrProductoNoEncontrado, ErrCantidad, ErrStockInsuficiente}
             /\ productos' = productos ]_vars

\* a sale of more units than are left was refused after a sale was accepted
C27_Testigo ==
    /\ llamada = "vender_producto"
    /\ resultado = ErrStockInsuficiente
    /\ \E i \in DOMAIN productos :
          ventas[i].vendido > 0 /\ productos[i].stock > 0

\* the number of Tareas stored under the ids 1..n
RECURSIVE C28_Almacenadas(_)
C28_Almacenadas(n) ==
    IF n = 0 THEN 0
    ELSE C28_Almacenadas(n - 1) + (IF n \in DOMAIN tareas THEN 1 ELSE 0)

\* the number of Tareas stored under the ids 1..n that are completed
RECURSIVE C28_Completadas(_)
C28_Completadas(n) ==
    IF n = 0 THEN 0
    ELSE C28_Completadas(n - 1)
             + (IF n \in DOMAIN tareas /\ tareas[n].completada THEN 1 ELSE 0)

\* C28: after any sequence of crear_tarea, actualizar_tarea and eliminar_tarea
\* calls, obtener_estadisticas reports total = the number of stored Tareas,
\* completadas = the number of stored Tareas that are completed and pendientes
\* = total - completadas, so completadas + pendientes = total and
\* 0 <= completadas <= total.
C28_Estadisticas ==
    LET e == obtener_estadisticas
    IN  /\ e.total = C28_Almacenadas(next_id - 1)
        /\ e.completadas = C28_Completadas(next_id - 1)
        /\ e.pendientes = e.total - e.completadas
        /\ e.completadas + e.pendientes = e.total
        /\ 0 <= e.completadas
        /\ e.completadas <= e.total

\* of two Tareas created one was deleted and one is pending after an update
C28_Testigo ==
    /\ llamada = "actualizar_tarea"
    /\ resultado = OK
    /\ next_id = 3
    /\ obtener_estadisticas.total = 1
    /\ obtener_estadisticas.pendientes = 1

\* C29: after any sequence of crear_tarea and actualizar_tarea calls, every
\* stored Tarea has a titulo that is not empty when stripped and is at most 100
\* characters long.
C29_TitulosValidos ==
    \A i \in DOMAIN tareas :
        /\ len(strip(tareas[i].titulo)) > 0
        /\ len(tareas[i].titulo) <= LIMITE_TITULO

\* the error of the first check that fails, in the order Usuario found,
\* Publicacion found, Usuario may borrow, Publicacion available
C30_PrimerFallo(uid, pid) ==
    IF ~\E u \in 1..Len(usuarios) : usuarios[u].id = uid
        THEN ErrUsuarioNoEncontrado
    ELSE IF ~\E p \in 1..Len(publicaciones) : publicaciones[p].id = pid
        THEN ErrPublicacionNoEncontrada
    ELSE IF ~\E u \in 1..Len(usuarios) :
               usuarios[u].id = uid /\ Len(Activos(u)) < 3 /\ Saldo(u) <= 0
        THEN ErrNoPuedePedir
    ELSE IF ~\E p \in 1..Len(publicaciones) :
               publicaciones[p].id = pid /\ publicaciones[p].disponible
        THEN ErrNoDisponible
    ELSE OK

\* C30: when more than one check of crear_prestamo would fail, the error
\* raised is that of the first failing check in the order Usuario not found,
\* Publicacion not found, Usuario may not borrow, Publicacion not available.
C30_OrdenDeErrores ==
    [][ llamada' = "crear_prestamo" =>
        \A uid \in UsuarioIds, pid \in PublicacionIds :
          crear_prestamo(uid, pid) => resultado' = C30_PrimerFallo(uid, pid) ]_vars

\* a Usuario who may not borrow was refused while every Publicacion was on loan
C30_Testigo ==
    /\ llamada = "crear_prestamo"
    /\ resultado = ErrNoPuedePedir
    /\ \A p \in 1..Len(publicaciones) : ~publicaciones[p].disponible

\* the k-th Prestamo of the Biblioteca has id k and the next id is one more
\* than the number of Prestamos made
C31_Secuencia ==
    /\ \A l \in 1..Len(prestamos) : prestamos[l].id = l
    /\ next_prestamo_id = Len(prestamos) + 1

\* the next id moves only in a crear_prestamo that succeeds, by one, and the
\* id of a Prestamo never changes
C31_Paso ==
    /\ next_prestamo_id' # next_prestamo_id =>
          /\ llamada' = "crear_prestamo" /\ resultado' = OK
          /\ next_prestamo_id' = next_prestamo_id + 1
          /\ Len(prestamos') = Len(prestamos) + 1
          /\ prestamos'[Len(prestamos')].id = next_prestamo_id
    /\ \A l \in 1..Len(prestamos) : prestamos'[l].id = prestamos[l].id

\* C31: loan ids are sequential and strictly increasing: the k-th successful
\* crear_prestamo returns the Prestamo with id k, starting at 1; a failed
\* crear_prestamo consumes no id and a return never frees or reuses one.
C31_IdsSecuenciales == []C31_Secuencia /\ [][C31_Paso]_vars

\* the second Prestamo was made, with id 2, after the first had been returned
C31_Testigo ==
    /\ llamada = "crear_prestamo"
    /\ resultado = OK
    /\ Len(prestamos) = 2
    /\ Devuelto(1)
    /\ prestamos[2].id = 2
    /\ next_prestamo_id = 3

\* C32: puede_pedir_prestamo returns True if and only if the Usuario has fewer
\* than 3 active loans and an accumulated penalty equal to 0, in every
\* reachable state of the Usuario.
C32_PuedePedirSiYSoloSi ==
    \A u \in 1..Len(usuarios) :
        puede_pedir_prestamo(u) <=> (Len(Activos(u)) < 3 /\ Saldo(u) = 0)

\* esta_vencido is False for a returned Prestamo and, for one not returned,
\* True exactly when the clock is past the due date
C33_Valor ==
    \A l \in 1..Len(prestamos) :
        IF Devuelto(l) THEN ~esta_vencido(prestamos[l])
        ELSE esta_vencido(prestamos[l]) <=>
                 ~(ahora <= prestamos[l].fecha_devolucion_esperada)

\* the clock does not go back, and a Prestamo that is overdue and is not
\* returned in a step is overdue after it
C33_Paso ==
    /\ ahora' >= ahora
    /\ \A l \in 1..Len(prestamos) :
          (esta_vencido(prestamos[l]) /\ ~Devuelto(l)') => esta_vencido(prestamos[l])'

\* C33: esta_vencido is False for every returned Prestamo whatever the time,
\* and for a Prestamo not returned it is True exactly when the current time is
\* strictly after the due date, False at the due instant itself; a Prestamo
\* that is overdue stays overdue until it is returned.
C33_EstaVencido == []C33_Valor /\ [][C33_Paso]_vars

\* at the due instant of a Prestamo that is not returned it is not overdue
C33_Testigo ==
    \E l \in 1..Len(prestamos) :
        /\ ~Devuelto(l)
        /\ ahora = prestamos[l].fecha_devolucion_esperada
        /\ ~esta_vencido(prestamos[l])

\* C34: calcular_dias_retraso is 0 whenever the Prestamo is not overdue (not yet
\* due, or already returned) and otherwise is the number of whole days between
\* the current time and the due date, rounded down; it is never negative, and
\* it is 0 for a Prestamo that is overdue by less than one whole day.
C34_DiasDeRetraso ==
    \A l \in 1..Len(prestamos) :
        LET pr == prestamos[l]
            dias == calcular_dias_retraso(pr)
            pasado == ahora - pr.fecha_devolucion_esperada
        IN  /\ dias >= 0
            /\ (Devuelto(l) \/ pasado <= 0) => dias = 0
            /\ (~Devuelto(l) /\ pasado > 0) =>
                  /\ dias * UnidadesPorDia <= pasado
                  /\ pasado < (dias + 1) * UnidadesPorDia
            /\ (~Devuelto(l) /\ pasado > 0 /\ pasado < UnidadesPorDia) => dias = 0

\* a Prestamo overdue by less than a day counts 0 days, and so does a returned
\* Prestamo past its due date
C34_Testigo ==
    \E l, k \in 1..Len(prestamos) :
        /\ ~Devuelto(l)
        /\ ahora > prestamos[l].fecha_devolucion_esperada
        /\ ahora < prestamos[l].fecha_devolucion_esperada + UnidadesPorDia
        /\ calcular_dias_retraso(prestamos[l]) = 0
        /\ Devuelto(k)
        /\ ahora > prestamos[k].fecha_devolucion_esperada
        /\ calcular_dias_retraso(prestamos[k]) = 0

\* the step leaves every Publicacion but the one at position p as it was
C35_SoloCambia(p) ==
    \A q \in 1..Len(publicaciones) : q # p => publicaciones'[q] = publicaciones[q]

\* C35: the availability of a Publicacion changes only in a step that is
\* marcar_prestado on it, directly or inside a successful crear_prestamo for
\* it, or marcar_devuelto on it, directly or inside the return of a Prestamo
\* that refers to it; every other call, and every failing call, leaves its
\* availability and its identity unchanged.
C35_SoloPorSusTransiciones ==
    [][ \A p \in 1..Len(publicaciones) :
          /\ publicaciones'[p].id = publicaciones[p].id
          /\ publicaciones'[p].tipo = publicaciones[p].tipo
          /\ (publicaciones[p].disponible /\ ~publicaciones'[p].disponible) =>
                /\ resultado' = OK
                /\ \/ llamada' = "marcar_prestado" /\ C35_SoloCambia(p)
                   \/ /\ llamada' = "crear_prestamo"
                      /\ C35_SoloCambia(p)
                      /\ Len(prestamos') = Len(prestamos) + 1
                      /\ prestamos'[Len(prestamos')].publicacion = p
          /\ (~publicaciones[p].disponible /\ publicaciones'[p].disponible) =>
                /\ resultado' = OK
                /\ \/ llamada' = "marcar_devuelto" /\ C35_SoloCambia(p)
                   \/ /\ llamada' = "devolver"
                      /\ C35_SoloCambia(p)
                      /\ \E l \in 1..Len(prestamos) :
                            /\ prestamos[l].publicacion = p
                            /\ ~Devuelto(l) /\ Devuelto(l)' ]_vars

\* a Publicacion was marked on loan by its own method while another one,
\* which had been lent and returned, stayed available
C35_Testigo ==
    /\ llamada = "marcar_prestado"
    /\ resultado = OK
    /\ \E p, q \in 1..Len(publicaciones) :
          /\ p # q
          /\ ~publicaciones[p].disponible
          /\ publicaciones[q].disponible
          /\ \E l \in 1..Len(prestamos) :
                prestamos[l].publicacion = q /\ Devuelto(l)

\* C36: when every Publicacion is registered once and loans are made only by
\* crear_prestamo and ended only by devolver, a Publicacion is on loan if and
\* only if exactly one Prestamo that refers to it has no return date, and it is
\* available if and only if there is none; no Publicacion is referred to by
\* two Prestamos without a return date.
C36_PrestadaSiYSoloSiUnPrestamo ==
    \A p \in 1..Len(publicaciones) :
        LET abiertos == Cardinality(PrestamosAbiertosDe(p))
        IN  /\ abiertos <= 1
            /\ ~publicaciones[p].disponible <=> abiertos = 1
            /\ publicaciones[p].disponible <=> abiertos = 0

\* a Publicacion that was lent and returned is on loan again, by its second
\* Prestamo
C36_Testigo ==
    /\ Len(prestamos) = 2
    /\ prestamos[1].publicacion = prestamos[2].publicacion
    /\ Devuelto(1)
    /\ ~Devuelto(2)
    /\ ~publicaciones[prestamos[2].publicacion].disponible

\* C37: when loans are made only by crear_prestamo and ended only by devolver,
\* the active loans of each Usuario are, exactly once each, the Prestamos of
\* the Biblioteca made to that Usuario that have no return date; no returned
\* Prestamo and no Prestamo of another Usuario is among them.
C37_ActivosDelUsuario ==
    \A u \in 1..Len(usuarios) :
        /\ {Activos(u)[i] : i \in 1..Len(Activos(u))} = PrestamosAbiertosDelUsuario(u)
        /\ \A i, j \in 1..Len(Activos(u)) : Activos(u)[i] = Activos(u)[j] => i = j

\* a Usuario who was lent two Publicaciones returned the first and keeps the
\* second, while another Usuario has no active loan
C37_Testigo ==
    /\ llamada = "devolver"
    /\ resultado = OK
    /\ Len(prestamos) = 2
    /\ prestamos[1].usuario = prestamos[2].usuario
    /\ Devuelto(1)
    /\ Activos(prestamos[2].usuario) = <<2>>
    /\ \E v \in 1..Len(usuarios) : v # prestamos[2].usuario /\ Activos(v) = <<>>

\* every Producto stored has a name, a price above 0 and a stock of 0 or more
C38_Almacenados ==
    \A i \in DOMAIN productos :
        /\ productos[i].stock >= 0
        /\ productos[i].nombre # 0
        /\ productos[i].precio > 0

\* an agregar_producto that the validation rejects stores nothing and takes
\* no id
C38_Paso ==
    (llamada' = "agregar_producto" /\ resultado' # ProductoAgregado)
        => /\ resultado' \in {ErrNombreVacio, ErrPrecio, ErrStockNegativo}
           /\ productos' = productos
           /\ bd_next_id' = bd_next_id

\* C38: after any sequence of agregar_producto and vender_producto calls with
\* arbitrary stock and quantity arguments, every Producto stored has stock >=
\* 0, and a Producto that ValidadorProducto rejects (empty name, price <= 0 or
\* negative stock) is never stored and consumes no id.
C38_StockNoNegativo == []C38_Almacenados /\ [][C38_Paso]_vars

\* a Producto with a negative stock was rejected after another one had been
\* sold out
C38_Testigo ==
    /\ llamada = "agregar_producto"
    /\ resultado = ErrStockNegativo
    /\ \E i \in DOMAIN productos :
          productos[i].stock = 0 /\ ventas[i].vendido > 0
    /\ bd_next_id = Cardinality(DOMAIN productos) + 1

\* every Tarea stored is under its own id, and that id was handed out before
C39_IdsEntregados ==
    \A i \in DOMAIN tareas : tareas[i].id = i /\ i < next_id

\* a crear_tarea that succeeds stores the Tarea under the next id and moves
\* the counter one up, one that is rejected leaves the tareas and the counter,
\* no other call moves the counter, and an id handed out before that is not
\* found stays not found
C39_Paso ==
    /\ next_id' >= next_id
    /\ \A i \in 1..(next_id - 1) :
          i \notin DOMAIN tareas => i \notin DOMAIN tareas'
    /\ (llamada' = "crear_tarea" /\ resultado' = OK)
          => /\ next_id' = next_id + 1
             /\ DOMAIN tareas' = DOMAIN tareas \cup {next_id}
             /\ next_id \notin DOMAIN tareas
    /\ (llamada' = "crear_tarea" /\ resultado' # OK)
          => /\ resultado' \in {ErrTituloVacio, ErrTituloLargo}
             /\ tareas' = tareas
             /\ next_id' = next_id
    /\ llamada' # "crear_tarea" => next_id' = next_id

\* C39: the ids that crear_tarea assigns are strictly increasing and never
\* reused: after any sequence of create, update and delete calls a new Tarea
\* gets an id different from that of every Tarea created before, deleted ones
\* included, so a deleted id stays not found; a rejected crear_tarea consumes
\* no id.
C39_IdsCrecientes == []C39_IdsEntregados /\ [][C39_Paso]_vars

\* a Tarea was created after the first one had been deleted, and got id 2
C39_Testigo ==
    /\ llamada = "crear_tarea"
    /\ resultado = OK
    /\ next_id = 3
    /\ DOMAIN tareas = {2}

====
